---- MODULE Spec2Model ----
(***************************************************************************)
(* Stock-Trading: the portfolio ledger of app/models/portfolio.py on top   *)
(* of the SQLite helpers of app/utils/sql_utils.py.                        *)
(*                                                                         *)
(* The committed database is the pair (portfolio, transactions).  Every    *)
(* caller (a request thread) runs one PortfolioManager call at a time; a   *)
(* call is a sequence of steps, one per statement that touches the price   *)
(* source or the database, so that calls of different callers interleave   *)
(* exactly where the code lets them.  Writes made between BEGIN            *)
(* TRANSACTION and conn.commit() are private to the connection (tx) and    *)
(* become visible at commit; SQLite lets one connection write at a time    *)
(* (writer).                                                               *)
(*                                                                         *)
(* The reading calls, get_portfolio and get_transaction_history, keep what *)
(* they have read and built in view.  The timestamp of a ledger row is the *)
(* second of the clock in which it was inserted; ReadSpec and Spec look at *)
(* one second, HistorySpec lets the clock run.                             *)
(*                                                                         *)
(* Prices and averages: the code computes in binary floating point; the    *)
(* model computes the same expressions over exact fractions n/d, so        *)
(* rounding in the last bits is not represented.                           *)
(***************************************************************************)
EXTENDS Integers, Sequences, FiniteSets, TLC

\* ------------------------------------------------------------------ bounds
MaxOps == 2        \* calls started in one behaviour
MaxQty == 2        \* largest quantity a caller asks for
MaxCalls == 3      \* calls on the price service in one behaviour

Procs == {"t1", "t2"}
Users == {1, 2}
Traders == {1}             \* the users who place orders; user 2 only reads
Symbols == {"AAPL", "GOOGL"}
Quantities == (-1)..MaxQty
Prices == {1, 2}           \* closing prices the price source answers
Keys == Users \X Symbols

VARIABLES
    portfolio,      \* table portfolio: (user_id, symbol) -> row
    transactions,   \* table transactions, in insertion (id) order
    writer,         \* the connection holding SQLite's write lock, or NoProc
    pc,             \* where each caller is in its call
    call,           \* the call's arguments
    price,          \* local `price` of buy_stock / sell_stock
    tx,             \* the connection's uncommitted writes
    result,         \* what the call returned or raised
    nops,           \* calls started so far
    view,           \* what a reading call has read and built so far
    clock,          \* the database's CURRENT_TIMESTAMP, in seconds
    cache,          \* self.cache of the StockAPI instance the callers share
    now,            \* datetime.now(), in minutes
    served,         \* the price fetches that succeeded on that instance, in order
    locals,         \* the locals of a call on StockAPI or of get_stock_info
    users           \* table users, in insertion (id) order

vars == <<portfolio, transactions, writer, pc, call, price, tx, result, nops, view, clock,
          cache, now, served, locals, users>>
\* the price service's side and the accounts' side of the state
apiVars == <<cache, now, served, locals>>
authVars == <<users>>
store == <<portfolio, transactions>>

NoProc == "none"

\* ------------------------------------------------------- exact fractions
Abs(x) == IF x < 0 THEN -x ELSE x

RECURSIVE GCD(_, _)
GCD(a, b) == IF b = 0 THEN a ELSE GCD(b, a % b)

\* SQL NULL, the value of x / 0 in SQLite
NullAvg == [n |-> 0, d |-> 0]

\* n/d in lowest terms with d > 0; NULL when d = 0
Frac(n, d) ==
    IF d = 0 THEN NullAvg
    ELSE LET g == GCD(Abs(n), Abs(d))
             s == IF d < 0 THEN -1 ELSE 1
         IN  [n |-> (s * n) \div g, d |-> (s * d) \div g]

\* ------------------------------------------------------------ table rows
\* portfolio[key] stands for the rows of the table with that key: `copies`
\* of them, with the columns of the one row when there is one
NoRow == [present |-> FALSE, copies |-> 0, quantity |-> 0, average_price |-> NullAvg]
Row(q, avg) == [present |-> TRUE, copies |-> 1, quantity |-> q, average_price |-> avg]

TxRow(id, u, s, q, p, type, ts) ==
    [id |-> id, user_id |-> u, symbol |-> s, quantity |-> q, price |-> p,
     transaction_type |-> type, timestamp |-> ts]

NoCall == [op |-> "none", user_id |-> 1, symbol |-> "AAPL", quantity |-> 0]
Call(op, u, s, q) == [op |-> op, user_id |-> u, symbol |-> s, quantity |-> q]
NoTx == [pos |-> <<>>, rows |-> <<>>, users |-> <<>>]
\* a reading call's locals: `holdings` (the rows get_portfolio selected),
\* `portfolio_data` (the dict it builds), the list get_transaction_history
\* returns, and asof, the length of the ledger when the call read the tables
NoPortfolioData == [holdings |-> <<>>, total_value |-> 0]
NoView == [holdings |-> <<>>, portfolio_data |-> NoPortfolioData, history |-> <<>>, asof |-> 0]
NoResult == [kind |-> "none", at |-> "idle", transaction_id |-> 0, price |-> 0, total |-> 0]
\* exception e raised by the statement at step `at`
Raised(e, at) == [kind |-> e, at |-> at, transaction_id |-> 0, price |-> 0, total |-> 0]
\* a plausible slip: the id read back from the committed table before the
\* call's own commit
ReturnedLastCommitted(id, p, total, at) ==
    [kind |-> "ok", at |-> at, transaction_id |-> Len(transactions), price |-> p, total |-> total]

\* the dict returned by buy_stock / sell_stock (symbol and quantity are the call's)
Returned(id, p, total, at) ==
    [kind |-> "ok", at |-> at, transaction_id |-> id, price |-> p, total |-> total]

QuantityError == "ValueError: Quantity must be positive"
InsufficientShares == "ValueError: Insufficient shares for sale"
PriceValueError == "ValueError: Unable to get price"
RequestException == "requests.RequestException"
StoreError == "sqlite3.Error"
TypeError == "TypeError"
IndexError == "IndexError"
PriceErrors == {PriceValueError, RequestException, IndexError}

\* what the HTTP request of StockAPI.get_stock_price meets: a daily series
\* whose latest close is `close`, a body without "Time Series (Daily)", a
\* body whose "Time Series (Daily)" has no day in it, or a request that
\* fails (connection error, HTTP error status)
ApiResponses ==
    [kind : {"series"}, close : Prices]
        \cup {[kind |-> "no_series", close |-> 0], [kind |-> "empty_series", close |-> 0],
              [kind |-> "request_failed", close |-> 0]}

KeyOf(c) == <<c.user_id, c.symbol>>

\* ----------------------------- the checks and the SQL of buy_stock / sell_stock
\* a plausible slip: a failed lookup answered with a default price of 0
get_stock_price_default(resp) ==
    [ok |-> TRUE, close |-> resp.close, error |-> "none"]

\* a plausible slip: one handler for everything that goes wrong in a trade,
\* so that a failed lookup surfaces as the store's error does
get_stock_price_as_store_error(resp) ==
    IF resp.kind = "series" THEN [ok |-> TRUE, close |-> resp.close, error |-> "none"]
    ELSE [ok |-> FALSE, close |-> 0, error |-> StoreError]

\* StockAPI.get_stock_price on a cache miss: the dict with the latest close,
\* or requests.RequestException re-raised, or ValueError("Unable to get
\* price for ...") for a body without the series; on a series without a
\* day, sorted(daily_data.keys())[-1] raises IndexError, which neither
\* except clause names
get_stock_price(resp) ==
    IF resp.kind = "series" THEN [ok |-> TRUE, close |-> resp.close, error |-> "none"]
    ELSE IF resp.kind = "request_failed"
         THEN [ok |-> FALSE, close |-> 0, error |-> RequestException]
         ELSE IF resp.kind = "empty_series"
              THEN [ok |-> FALSE, close |-> 0, error |-> IndexError]
              ELSE [ok |-> FALSE, close |-> 0, error |-> PriceValueError]

\* a plausible slip: the test written `quantity < 0`
ValidQuantityNonNegative(k) == k >= 0

\* buy_stock / sell_stock: `if quantity <= 0: raise ValueError`
ValidQuantity(k) == k > 0

\* a plausible slip: `<=` for `<`, which rejects selling all one holds
EnoughSharesStrict(row, k) == row.present /\ ~(row.quantity <= k)

\* sell_stock: `if not result or result[0]['quantity'] < quantity: raise`
EnoughShares(row, k) == row.present /\ ~(row.quantity < k)

\* a plausible slip: the average weighted with the quantity already updated
\* (the SET clauses evaluated left to right)
UpsertAverageNewQuantity(row, k, p) ==
    IF row.average_price = NullAvg THEN NullAvg
    ELSE Frac(row.average_price.n * (row.quantity + k) + p * k * row.average_price.d,
              row.average_price.d * (row.quantity + k + k))

\* average_price = (average_price * quantity + ? * ?) / (quantity + ?),
\* every column on the right being the row's value before the update
UpsertAverage(row, k, p) ==
    IF row.average_price = NullAvg THEN NullAvg
    ELSE Frac(row.average_price.n * row.quantity + p * k * row.average_price.d,
              row.average_price.d * (row.quantity + k))

\* a plausible slip: a plain INSERT on a table without the unique key, which
\* adds a row beside the one already there
UpsertInserts(row, k, p) ==
    [present |-> TRUE, copies |-> row.copies + 1, quantity |-> k, average_price |-> Frac(p, 1)]

\* a plausible slip: INSERT OR REPLACE, which forgets the row it conflicts with
UpsertReplace(row, k, p) == Row(k, Frac(p, 1))

\* INSERT INTO portfolio ... ON CONFLICT(user_id, symbol) DO UPDATE SET ...
UpsertRow(row, k, p) ==
    IF ~row.present THEN Row(k, Frac(p, 1))
    ELSE Row(row.quantity + k, UpsertAverage(row, k, p))

\* a plausible slip: a sell that restates the cost basis of the shares left
UpdateRowRebased(row, k) ==
    IF row.present
    THEN <<Row(row.quantity - k,
               Frac(row.average_price.n * row.quantity, row.average_price.d * (row.quantity - k)))>>
    ELSE <<>>

\* UPDATE portfolio SET quantity = quantity - ? WHERE user_id = ? AND symbol = ?
\* (no row matches: nothing is written)
UpdateRow(row, k) ==
    IF row.present THEN <<Row(row.quantity - k, row.average_price)>> ELSE <<>>

\* a plausible slip: writers that do not exclude one another
NoWriteLock == TRUE

\* SQLite admits one writing connection at a time: the first write statement
\* of a transaction takes the write lock, commit and rollback release it.
WriteLockFree == writer = NoProc

\* a plausible slip: a connection left open with its transaction unfinished
LockKept(p) == writer

\* conn.commit(), conn.rollback() and conn.close() end the connection's
\* transaction and with it the write lock, if the connection held it
ReleaseLock(p) == IF writer = p THEN NoProc ELSE writer

\* a plausible slip: a position write whose WHERE clause leaves out the symbol
CommitPortfolioAllSymbols(t, key) ==
    IF t.pos = <<>> THEN portfolio
    ELSE [k \in Keys |-> IF k[1] = key[1] THEN t.pos[1] ELSE portfolio[k]]

\* conn.commit(): the connection's writes become the committed tables
CommitPortfolio(t, key) ==
    IF t.pos = <<>> THEN portfolio ELSE [portfolio EXCEPT ![key] = t.pos[1]]

\* a plausible slip: INSERT OR REPLACE on an id already in use
CommitOverLast(t) ==
    IF transactions = <<>> THEN t.rows
    ELSE SubSeq(transactions, 1, Len(transactions) - 1) \o t.rows

\* a plausible slip: a commit run again after it went through
CommitTwice(t) == transactions \o t.rows \o t.rows

CommitTransactions(t) == transactions \o t.rows

\* a plausible slip: the handler lets the position write through
RollbackKeepsPosition(t, key) == CommitPortfolio(t, key)

\* conn.rollback(): the committed tables without the connection's writes
RollbackPortfolio(t, key) == portfolio

\* a plausible slip: the handler lets the inserted row through
RollbackKeepsRow(t) == CommitTransactions(t)

\* conn.rollback(), for the transactions table
RollbackTransactions(t) == transactions

\* a plausible slip: the id read with SELECT MAX(id) before the INSERT
NextIdIsMaxId == IF transactions = <<>> THEN 1 ELSE transactions[Len(transactions)].id

\* cursor.lastrowid after INSERT INTO transactions: the next id of the table
NextId == Len(transactions) + 1

\* the timestamp column is not in the INSERT's column list: the table
\* fills it with the time of the statement
CurrentTimestamp == clock

\* ------------------------------------------------- StockAPI and users: data
\* self.cache_duration = timedelta(minutes=15)
CacheDuration == 15
\* the clock is followed until a minute after one cache duration
MaxNow == CacheDuration + 1

\* cache keys: f"price_{symbol}"
CacheKey(kind, s) == <<kind, s>>
CacheKinds == {"price", "info", "historical"}
CacheKeys == CacheKinds \X Symbols
\* self.cache[key] = (data, timestamp); the data of a price entry is the
\* dict get_stock_price built, of which the model keeps 'close'
NoEntry == [present |-> FALSE, data |-> 0, timestamp |-> 0]
Entry(data, t) == [present |-> TRUE, data |-> data, timestamp |-> t]

\* a price fetch that succeeded: what it returned and when it cached it
Served(s, data, t) == [symbol |-> s, data |-> data, at |-> t]

\* locals of a StockAPI call: the tuple read from the cache, whether it was
\* found expired, the time of the lookup, whether requests.get was called, what get_stock_price did
\* (for validate_symbol), and how many fetches had succeeded when the call
\* began; of get_stock_info: the three parts of its answer, which of them
\* it has, and what each of its calls on the price source did; of the
\* methods of User: their arguments, the new salt, and the fields id, _salt
\* and _hashed_password of the User object at hand
NoLocals ==
    [data |-> 0, timestamp |-> 0, expired |-> FALSE, checked |-> 0, requested |-> FALSE, outcome |-> "none",
     seen |-> 0, current_price |-> 0, company_info |-> 0, historical_data |-> 0,
     parts |-> {}, outcomes |-> <<>>, username |-> "", password |-> "",
     new_password |-> "", new_salt |-> 0, id |-> 0, salt |-> 0, hashed_password |-> <<>>]

\* a row of table users; last_login 0 stands for no login yet
UserRow(id, username, salt, password_hash, last_login) ==
    [id |-> id, username |-> username, salt |-> salt, password_hash |-> password_hash,
     last_login |-> last_login]

\* the shared StockAPI instance as constructed, and no call under way
NoStockData ==
    /\ cache = [k \in CacheKeys |-> NoEntry]
    /\ now = 0
    /\ served = <<>>
    /\ locals = [p \in Procs |-> NoLocals]

\* table users as created
NoAccounts == users = <<>>

\* ------------------------------------------------------------------ Init
\* The database is empty, as created, or holds what one committed buy of
\* MaxQty shares of AAPL at price 1 by user 1 left in it.
SeedKey == <<1, "AAPL">>
SeedPortfolio == [k \in Keys |-> IF k = SeedKey THEN UpsertRow(NoRow, MaxQty, 1) ELSE NoRow]
SeedTransactions == <<TxRow(1, 1, "AAPL", MaxQty, 1, "BUY", 1)>>

Init ==
    /\ \/ portfolio = [k \in Keys |-> NoRow] /\ transactions = <<>>
       \/ portfolio = SeedPortfolio /\ transactions = SeedTransactions
    /\ writer = NoProc
    /\ pc = [p \in Procs |-> "idle"]
    /\ call = [p \in Procs |-> NoCall]
    /\ price = [p \in Procs |-> 0]
    /\ tx = [p \in Procs |-> NoTx]
    /\ result = [p \in Procs |-> NoResult]
    /\ nops = 0
    /\ view = [p \in Procs |-> NoView]
    /\ clock = 1
    /\ NoStockData /\ NoAccounts

\* the call ends: it returns r or raises it, and its locals are gone
Finish(p, r) ==
    /\ price' = [price EXCEPT ![p] = 0]
    /\ pc' = [pc EXCEPT ![p] = "done"]
    /\ result' = [result EXCEPT ![p] = r]

\* ------------------------------------------------------------- buy_stock
buy_stock(p) ==
    /\ pc[p] = "idle" /\ nops < MaxOps
    /\ \E u \in Traders, s \in Symbols, k \in Quantities :
        /\ call' = [call EXCEPT ![p] = Call("buy", u, s, k)]
        /\ IF ValidQuantity(k)
           THEN pc' = [pc EXCEPT ![p] = "buy_price"] /\ UNCHANGED <<result, price>>
           ELSE Finish(p, Raised(QuantityError, "buy_stock"))
    /\ nops' = nops + 1
    /\ UNCHANGED <<portfolio, transactions, writer, tx>>
    /\ UNCHANGED <<view, clock>>
    /\ UNCHANGED <<apiVars, authVars>>

\* current_data = self.stock_api.get_stock_price(symbol); price = ...['close']
buy_get_price(p) ==
    /\ pc[p] = "buy_price"
    /\ \E resp \in ApiResponses :
        LET current_data == get_stock_price(resp)
        IN  IF current_data.ok
            THEN /\ price' = [price EXCEPT ![p] = current_data.close]
                 /\ pc' = [pc EXCEPT ![p] = "buy_begin"]
                 /\ UNCHANGED result
            ELSE Finish(p, Raised(current_data.error, "buy_price"))
    /\ UNCHANGED <<portfolio, transactions, writer, call, tx, nops>>
    /\ UNCHANGED <<view, clock>>
    /\ UNCHANGED <<apiVars, authVars>>

\* with get_db_connection() as conn: conn.execute("BEGIN TRANSACTION")
buy_begin(p) ==
    /\ pc[p] = "buy_begin"
    /\ pc' = [pc EXCEPT ![p] = "buy_upsert"]
    /\ UNCHANGED <<portfolio, transactions, writer, call, price, tx, result, nops>>
    /\ UNCHANGED <<view, clock>>
    /\ UNCHANGED <<apiVars, authVars>>

\* the upsert of the position, evaluated on the committed row under the lock
buy_upsert(p) ==
    /\ pc[p] = "buy_upsert"
    /\ WriteLockFree
    /\ writer' = p
    /\ tx' = [tx EXCEPT ![p].pos =
                <<UpsertRow(portfolio[KeyOf(call[p])], call[p].quantity, price[p])>>]
    /\ pc' = [pc EXCEPT ![p] = "buy_record"]
    /\ UNCHANGED <<portfolio, transactions, call, price, result, nops>>
    /\ UNCHANGED <<view, clock>>
    /\ UNCHANGED <<apiVars, authVars>>

\* INSERT INTO transactions (...) VALUES (?, ?, ?, ?, 'BUY'); lastrowid
buy_record(p) ==
    /\ pc[p] = "buy_record"
    /\ tx' = [tx EXCEPT ![p].rows =
                <<TxRow(NextId, call[p].user_id, call[p].symbol,
                        call[p].quantity, price[p], "BUY", CurrentTimestamp)>>]
    /\ pc' = [pc EXCEPT ![p] = "buy_commit"]
    /\ UNCHANGED <<portfolio, transactions, writer, call, price, result, nops>>
    /\ UNCHANGED <<view, clock>>
    /\ UNCHANGED <<apiVars, authVars>>

\* conn.commit(); return {...}
buy_commit(p) ==
    /\ pc[p] = "buy_commit"
    /\ portfolio' = CommitPortfolio(tx[p], KeyOf(call[p]))
    /\ transactions' = CommitTransactions(tx[p])
    /\ writer' = ReleaseLock(p)
    /\ tx' = [tx EXCEPT ![p] = NoTx]
    /\ Finish(p, Returned(tx[p].rows[1].id, price[p], price[p] * call[p].quantity,
                          "buy_commit"))
    /\ UNCHANGED <<call, nops>>
    /\ UNCHANGED <<view, clock>>
    /\ UNCHANGED <<apiVars, authVars>>

\* ------------------------------------------------------------ sell_stock
sell_stock(p) ==
    /\ pc[p] = "idle" /\ nops < MaxOps
    /\ \E u \in Traders, s \in Symbols, k \in Quantities :
        /\ call' = [call EXCEPT ![p] = Call("sell", u, s, k)]
        /\ IF ValidQuantity(k)
           THEN pc' = [pc EXCEPT ![p] = "sell_check"] /\ UNCHANGED <<result, price>>
           ELSE Finish(p, Raised(QuantityError, "sell_stock"))
    /\ nops' = nops + 1
    /\ UNCHANGED <<portfolio, transactions, writer, tx>>
    /\ UNCHANGED <<view, clock>>
    /\ UNCHANGED <<apiVars, authVars>>

\* execute_query("SELECT quantity FROM portfolio WHERE ..."), then the check
sell_check(p) ==
    /\ pc[p] = "sell_check"
    /\ IF EnoughShares(portfolio[KeyOf(call[p])], call[p].quantity)
       THEN pc' = [pc EXCEPT ![p] = "sell_price"] /\ UNCHANGED <<result, price>>
       ELSE Finish(p, Raised(InsufficientShares, "sell_check"))
    /\ UNCHANGED <<portfolio, transactions, writer, call, tx, nops>>
    /\ UNCHANGED <<view, clock>>
    /\ UNCHANGED <<apiVars, authVars>>

sell_get_price(p) ==
    /\ pc[p] = "sell_price"
    /\ \E resp \in ApiResponses :
        LET current_data == get_stock_price(resp)
        IN  IF current_data.ok
            THEN /\ price' = [price EXCEPT ![p] = current_data.close]
                 /\ pc' = [pc EXCEPT ![p] = "sell_begin"]
                 /\ UNCHANGED result
            ELSE Finish(p, Raised(current_data.error, "sell_price"))
    /\ UNCHANGED <<portfolio, transactions, writer, call, tx, nops>>
    /\ UNCHANGED <<view, clock>>
    /\ UNCHANGED <<apiVars, authVars>>

sell_begin(p) ==
    /\ pc[p] = "sell_begin"
    /\ pc' = [pc EXCEPT ![p] = "sell_update"]
    /\ UNCHANGED <<portfolio, transactions, writer, call, price, tx, result, nops>>
    /\ UNCHANGED <<view, clock>>
    /\ UNCHANGED <<apiVars, authVars>>

\* the decrement, evaluated on the committed row under the lock
sell_update(p) ==
    /\ pc[p] = "sell_update"
    /\ WriteLockFree
    /\ writer' = p
    /\ tx' = [tx EXCEPT ![p].pos = UpdateRow(portfolio[KeyOf(call[p])], call[p].quantity)]
    /\ pc' = [pc EXCEPT ![p] = "sell_record"]
    /\ UNCHANGED <<portfolio, transactions, call, price, result, nops>>
    /\ UNCHANGED <<view, clock>>
    /\ UNCHANGED <<apiVars, authVars>>

sell_record(p) ==
    /\ pc[p] = "sell_record"
    /\ tx' = [tx EXCEPT ![p].rows =
                <<TxRow(NextId, call[p].user_id, call[p].symbol,
                        call[p].quantity, price[p], "SELL", CurrentTimestamp)>>]
    /\ pc' = [pc EXCEPT ![p] = "sell_commit"]
    /\ UNCHANGED <<portfolio, transactions, writer, call, price, result, nops>>
    /\ UNCHANGED <<view, clock>>
    /\ UNCHANGED <<apiVars, authVars>>

sell_commit(p) ==
    /\ pc[p] = "sell_commit"
    /\ portfolio' = CommitPortfolio(tx[p], KeyOf(call[p]))
    /\ transactions' = CommitTransactions(tx[p])
    /\ writer' = ReleaseLock(p)
    /\ tx' = [tx EXCEPT ![p] = NoTx]
    /\ Finish(p, Returned(tx[p].rows[1].id, price[p], price[p] * call[p].quantity,
                          "sell_commit"))
    /\ UNCHANGED <<call, nops>>
    /\ UNCHANGED <<view, clock>>
    /\ UNCHANGED <<apiVars, authVars>>

\* ---------------------------------------------------- database failures
\* Steps that run a statement on a connection.  Any of them can raise
\* sqlite3.Error (I/O failure, or "database is locked" when the write lock
\* stays taken beyond the connection's busy timeout).
DbSteps == {"buy_begin", "buy_upsert", "buy_record", "buy_commit",
            "sell_check", "sell_begin", "sell_update", "sell_record", "sell_commit",
            "create_insert", "create_commit",
            "login_select", "login_update", "login_commit", "up_update", "up_commit"}

\* except Exception: conn.rollback(); raise   (and conn.close() in
\* get_db_connection, which ends the connection's transaction)
db_error(p) ==
    /\ pc[p] \in DbSteps
    /\ portfolio' = RollbackPortfolio(tx[p], KeyOf(call[p]))
    /\ transactions' = RollbackTransactions(tx[p])
    /\ writer' = ReleaseLock(p)
    /\ tx' = [tx EXCEPT ![p] = NoTx]
    /\ Finish(p, Raised(StoreError, pc[p]))
    /\ UNCHANGED <<call, nops>>
    /\ UNCHANGED <<view, clock>>
    /\ UNCHANGED <<apiVars, authVars>>

\* the caller has its answer and is free for its next request
Return(p) ==
    /\ pc[p] = "done"
    /\ pc' = [pc EXCEPT ![p] = "idle"]
    /\ call' = [call EXCEPT ![p] = NoCall]
    /\ result' = [result EXCEPT ![p] = NoResult]
    /\ view' = [view EXCEPT ![p] = NoView]
    /\ locals' = [locals EXCEPT ![p] = NoLocals]
    /\ UNCHANGED <<portfolio, transactions, writer, price, tx, nops, clock>>
    /\ UNCHANGED <<cache, now, served, users>>

\* ------------------------------------------------------------ get_portfolio
\* a plausible slip: `quantity >= 0` in the WHERE clause
HeldOrEmpty(row) == row.quantity >= 0

\* ... WHERE user_id = ? AND quantity > 0
Held(row) == row.quantity > 0

\* the rows of one user come out of the (user_id, symbol) index in this order
SymbolOrder == <<"AAPL", "GOOGL">>

\* SELECT symbol, quantity, average_price FROM portfolio WHERE ..., from the
\* i-th symbol on
RECURSIVE SelectHoldings(_, _)
SelectHoldings(u, i) ==
    IF i > Len(SymbolOrder) THEN <<>>
    ELSE LET row == portfolio[<<u, SymbolOrder[i]>>]
         IN  (IF row.present /\ Held(row)
              THEN <<[symbol |-> SymbolOrder[i], quantity |-> row.quantity,
                      average_price |-> row.average_price]>>
              ELSE <<>>) \o SelectHoldings(u, i + 1)

\* `for holding in holdings`: execute_query returned cursor.fetchall(), the
\* rows as they were when the SELECT ran
HoldingRead(p, i) == view[p].holdings[i]

\* a plausible slip: the gain taken against the price of one share
HoldingInfoPerShare(holding, close) ==
    [symbol |-> holding.symbol, quantity |-> holding.quantity,
     average_price |-> holding.average_price, current_price |-> close,
     total_value |-> holding.quantity * close,
     gain_loss |-> Frac(holding.quantity * close * holding.average_price.d
                            - holding.average_price.n,
                        holding.average_price.d)]

\* holding_value = quantity * close; holding_info = {...,
\* 'gain_loss': holding_value - quantity * average_price}
HoldingInfo(holding, close) ==
    [symbol |-> holding.symbol, quantity |-> holding.quantity,
     average_price |-> holding.average_price, current_price |-> close,
     total_value |-> holding.quantity * close,
     gain_loss |-> Frac(holding.quantity * close * holding.average_price.d
                            - holding.quantity * holding.average_price.n,
                        holding.average_price.d)]

\* a plausible slip: `except: return portfolio_data`, the holdings priced so far
PartialPortfolio(v) == v

\* except Exception: raise -- the call's locals, portfolio_data among them,
\* are gone with the exception
Unwound(v) == NoView

\* a plausible slip: a read that clears the rows it has listed
AfterSelectCleared(u) ==
    [k \in Keys |-> IF k[1] = u /\ portfolio[k].present
                    THEN Row(0, portfolio[k].average_price) ELSE portfolio[k]]

\* a plausible slip: a read that deletes the rows it has listed
AfterSelectDeleted(u) ==
    [k \in Keys |-> IF k[1] = u /\ portfolio[k].present THEN NoRow ELSE portfolio[k]]

\* execute_query: cursor.execute(query, params); conn.commit() -- the query
\* is a SELECT, so the commit finds nothing to write
AfterSelect(u) == portfolio

\* the call up to and including its SELECT; with no holdings it returns at once
get_portfolio(p) ==
    /\ pc[p] = "idle" /\ nops < MaxOps
    /\ \E u \in Users :
        /\ call' = [call EXCEPT ![p] = Call("portfolio", u, NoCall.symbol, 0)]
        /\ \/ LET holdings == SelectHoldings(u, 1)
              IN  /\ view' = [view EXCEPT ![p] =
                                [NoView EXCEPT !.holdings = holdings,
                                               !.asof = Len(transactions)]]
                  /\ IF holdings = <<>>
                     THEN Finish(p, Returned(0, 0, 0, "get_portfolio"))
                     ELSE pc' = [pc EXCEPT ![p] = "gp_price"] /\ UNCHANGED <<result, price>>
                  /\ portfolio' = AfterSelect(u)
           \/ /\ Finish(p, Raised(StoreError, "get_portfolio"))
              /\ UNCHANGED <<view, portfolio>>
    /\ nops' = nops + 1
    /\ UNCHANGED <<transactions, writer, tx, clock>>
    /\ UNCHANGED <<apiVars, authVars>>

\* one turn of the loop: the price of the next holding, its holding_info,
\* the running total; after the last holding the call returns
gp_price(p) ==
    /\ pc[p] = "gp_price"
    /\ LET i == Len(view[p].portfolio_data.holdings) + 1
           holding == HoldingRead(p, i)
       IN  \E resp \in ApiResponses :
            LET current_price == get_stock_price(resp)
            IN  IF ~current_price.ok
                THEN /\ Finish(p, Raised(current_price.error, "gp_price"))
                     /\ view' = [view EXCEPT ![p] = Unwound(view[p])]
                ELSE IF holding.average_price = NullAvg
                THEN /\ Finish(p, Raised(TypeError, "gp_price"))
                     /\ view' = [view EXCEPT ![p] = Unwound(view[p])]
                ELSE LET holding_info == HoldingInfo(holding, current_price.close)
                         portfolio_data ==
                             [holdings |-> Append(view[p].portfolio_data.holdings, holding_info),
                              total_value |-> view[p].portfolio_data.total_value
                                                + holding_info.total_value]
                     IN  /\ view' = [view EXCEPT ![p].portfolio_data = portfolio_data]
                         /\ IF i = Len(view[p].holdings)
                            THEN Finish(p, Returned(0, 0, 0, "gp_price"))
                            ELSE UNCHANGED <<pc, result, price>>
    /\ UNCHANGED <<portfolio, transactions, writer, call, tx, nops, clock>>
    /\ UNCHANGED <<apiVars, authVars>>

\* -------------------------------------------------- get_transaction_history
\* a plausible slip: the WHERE clause left out
SelectAllTransactions(u) == transactions

\* SELECT * FROM transactions WHERE user_id = ?
SelectTransactions(u) == SelectSeq(transactions, LAMBDA t : t.user_id = u)

\* a plausible slip: the ORDER BY left out, the rows in id order
OrderByRowid(rows) == {rows}

\* ORDER BY timestamp DESC: the rows latest first; rows of one second come
\* in an order SQL leaves open
OrderByTimestampDesc(rows) ==
    {[i \in 1..Len(rows) |-> rows[f[i]]] :
        f \in {g \in Permutations(1..Len(rows)) :
                  \A i, j \in 1..Len(rows) :
                      i < j => rows[g[i]].timestamp >= rows[g[j]].timestamp}}

\* the dict built for each row
TransactionView(t) ==
    [transaction_id |-> t.id, symbol |-> t.symbol, quantity |-> t.quantity,
     price |-> t.price, type |-> t.transaction_type, timestamp |-> t.timestamp,
     total |-> t.price * t.quantity]

\* the whole call: one SELECT and the list built from its rows
get_transaction_history(p) ==
    /\ pc[p] = "idle" /\ nops < MaxOps
    /\ \E u \in Users :
        /\ call' = [call EXCEPT ![p] = Call("history", u, NoCall.symbol, 0)]
        /\ \/ \E rows \in OrderByTimestampDesc(SelectTransactions(u)) :
                /\ view' = [view EXCEPT ![p] =
                              [NoView EXCEPT
                                 !.history = [i \in 1..Len(rows) |-> TransactionView(rows[i])],
                                 !.asof = Len(transactions)]]
                /\ Finish(p, Returned(0, 0, 0, "get_transaction_history"))
           \/ /\ Finish(p, Raised(StoreError, "get_transaction_history"))
              /\ UNCHANGED view
    /\ nops' = nops + 1
    /\ UNCHANGED <<portfolio, transactions, writer, tx, clock>>
    /\ UNCHANGED <<apiVars, authVars>>

\* ------------------------------------------------------------------ clock
\* a second passes; seconds in which no row was stamped are left out, since
\* only the order of the stamps matters
Tick ==
    /\ \/ \E i \in 1..Len(transactions) : transactions[i].timestamp = clock
       \/ \E p \in Procs : tx[p].rows # <<>> /\ tx[p].rows[1].timestamp = clock
    /\ clock' = clock + 1
    /\ UNCHANGED <<portfolio, transactions, writer, pc, call, price, tx, result, nops, view>>
    /\ UNCHANGED <<apiVars, authVars>>

Next ==
    \E p \in Procs :
        \/ buy_stock(p)
        \/ buy_get_price(p)
        \/ buy_begin(p)
        \/ buy_upsert(p)
        \/ buy_record(p)
        \/ buy_commit(p)
        \/ sell_stock(p)
        \/ sell_check(p)
        \/ sell_get_price(p)
        \/ sell_begin(p)
        \/ sell_update(p)
        \/ sell_record(p)
        \/ sell_commit(p)
        \/ db_error(p)
        \/ Return(p)

\* the trading calls alone, within one second of the clock
Spec == Init /\ [][Next]_vars

\* the trading calls on the database as created
FreshInit == Init /\ transactions = <<>>

FreshSpec == FreshInit /\ [][Next]_vars

\* the database two overlapping sells leave (sell_stock checks the quantity
\* with a SELECT and decrements it later with an unconditional UPDATE): the
\* seeded position sold MaxQty and 1, both sells committed, quantity -1
OversoldPortfolio == [k \in Keys |-> IF k = SeedKey THEN Row(-1, Frac(1, 1)) ELSE NoRow]
OversoldTransactions ==
    SeedTransactions \o <<TxRow(2, 1, "AAPL", MaxQty, 1, "SELL", 1),
                          TxRow(3, 1, "AAPL", 1, 1, "SELL", 1)>>

OversoldInit ==
    /\ portfolio = OversoldPortfolio /\ transactions = OversoldTransactions
    /\ writer = NoProc
    /\ pc = [p \in Procs |-> "idle"]
    /\ call = [p \in Procs |-> NoCall]
    /\ price = [p \in Procs |-> 0]
    /\ tx = [p \in Procs |-> NoTx]
    /\ result = [p \in Procs |-> NoResult]
    /\ nops = 0
    /\ view = [p \in Procs |-> NoView]
    /\ clock = 1
    /\ NoStockData /\ NoAccounts

\* the trading calls on the oversold database
OversoldSpec == OversoldInit /\ [][Next]_vars

\* the trading calls and the reading calls of every caller, within one
\* second of the clock
ReadNext ==
    \/ Next
    \/ \E p \in Procs :
        \/ get_portfolio(p)
        \/ gp_price(p)
        \/ get_transaction_history(p)

ReadSpec == Init /\ [][ReadNext]_vars

\* What makes a call move on.  A statement on the database returns: with
\* its rows, or, when another connection keeps the write lock, with
\* "database is locked" once the busy timeout of sqlite3.connect (its
\* default, 5 seconds) is over; and Python runs the statements between two
\* such steps.  The steps that ask the price source are not in here:
\* requests.get(self.base_url, params=params) is called without a timeout,
\* so it returns when the server answers or the connection breaks, and not
\* before.
DatabaseStep(p) ==
    \/ buy_begin(p) \/ buy_upsert(p) \/ buy_record(p) \/ buy_commit(p)
    \/ sell_check(p) \/ sell_begin(p) \/ sell_update(p) \/ sell_record(p) \/ sell_commit(p)
    \/ db_error(p)

LiveSpec == ReadSpec /\ \A p \in Procs : WF_vars(DatabaseStep(p))

\* the ledger over time: one caller trades, the other reads the history,
\* and the clock runs
Trader == "t1"
Reader == "t2"

\* the database as three committed buys left it: two of user 1 in different
\* seconds, and one of user 2
HistorySeedPortfolio ==
    [k \in Keys |->
        IF k = SeedKey THEN UpsertRow(NoRow, MaxQty, 1)
        ELSE IF k = <<2, "AAPL">> THEN UpsertRow(NoRow, 1, 2)
        ELSE IF k = <<1, "GOOGL">> THEN UpsertRow(NoRow, 1, 2)
        ELSE NoRow]
HistorySeedTransactions ==
    <<TxRow(1, 1, "AAPL", MaxQty, 1, "BUY", 1),
      TxRow(2, 2, "AAPL", 1, 2, "BUY", 1),
      TxRow(3, 1, "GOOGL", 1, 2, "BUY", 2)>>

HistoryInit ==
    /\ \/ portfolio = [k \in Keys |-> NoRow] /\ transactions = <<>> /\ clock = 1
       \/ /\ portfolio = HistorySeedPortfolio
          /\ transactions = HistorySeedTransactions
          /\ clock = 2
    /\ writer = NoProc
    /\ pc = [p \in Procs |-> "idle"]
    /\ call = [p \in Procs |-> NoCall]
    /\ price = [p \in Procs |-> 0]
    /\ tx = [p \in Procs |-> NoTx]
    /\ result = [p \in Procs |-> NoResult]
    /\ nops = 0
    /\ view = [p \in Procs |-> NoView]
    /\ NoStockData /\ NoAccounts

HistoryNext ==
    \/ Tick
    \/ buy_stock(Trader)
    \/ buy_get_price(Trader)
    \/ buy_begin(Trader)
    \/ buy_upsert(Trader)
    \/ buy_record(Trader)
    \/ buy_commit(Trader)
    \/ sell_stock(Trader)
    \/ sell_check(Trader)
    \/ sell_get_price(Trader)
    \/ sell_begin(Trader)
    \/ sell_update(Trader)
    \/ sell_record(Trader)
    \/ sell_commit(Trader)
    \/ db_error(Trader)
    \/ Return(Trader)
    \/ get_transaction_history(Reader)
    \/ Return(Reader)

HistorySpec == HistoryInit /\ [][HistoryNext]_vars

TypeOK ==
    /\ \A k \in Keys : portfolio[k].present \in BOOLEAN /\ portfolio[k].quantity \in Int
    /\ writer \in Procs \cup {NoProc}
    /\ nops \in Nat /\ (nops <= MaxOps \/ nops <= MaxCalls)
    /\ Len(transactions) <= MaxOps + Len(HistorySeedTransactions)
    /\ clock \in 1..(MaxOps + Len(HistorySeedTransactions))

\* ================================================================ StockAPI
\* The routes of app/routes/stock.py call one StockAPI instance, created
\* when the module is loaded, from every request thread: the callers share
\* its cache.  Python runs the statements of _get_cached_data one after the
\* other, and another thread can run between any two of them.
KeyError == "KeyError"
InfoValueError == "ValueError: Unable to get company info"
HistoricalValueError == "ValueError: Unable to get historical data"

\* what requests.get meets for function=OVERVIEW: a body with "Symbol", a
\* body without it, or a request that fails
InfoResponses ==
    [kind : {"overview"}, close : Prices]
        \cup {[kind |-> "no_symbol", close |-> 0], [kind |-> "request_failed", close |-> 0]}

\* StockAPI.get_company_info on a cache miss
get_company_info(resp) ==
    IF resp.kind = "overview" THEN [ok |-> TRUE, close |-> resp.close, error |-> "none"]
    ELSE IF resp.kind = "request_failed"
         THEN [ok |-> FALSE, close |-> 0, error |-> RequestException]
         ELSE [ok |-> FALSE, close |-> 0, error |-> InfoValueError]

\* StockAPI.get_historical_data on a cache miss; a series without a day
\* gives an empty list
get_historical_data(resp) ==
    IF resp.kind \in {"series", "empty_series"}
    THEN [ok |-> TRUE, close |-> resp.close, error |-> "none"]
    ELSE IF resp.kind = "request_failed"
         THEN [ok |-> FALSE, close |-> 0, error |-> RequestException]
         ELSE [ok |-> FALSE, close |-> 0, error |-> HistoricalValueError]

\* datetime.now() - timestamp < self.cache_duration
Fresh(timestamp) == now - timestamp < CacheDuration

\* the value of validate_symbol
BoolResult(b, at) ==
    [kind |-> IF b THEN "True" ELSE "False", at |-> at, transaction_id |-> 0,
     price |-> 0, total |-> 0]

\* validate_symbol: try: self.get_stock_price(symbol); return True
\* except (requests.RequestException, ValueError): return False
validate_symbol(r) ==
    IF r.kind = "ok" THEN BoolResult(TRUE, r.at)
    ELSE IF r.kind \in {RequestException, PriceValueError} THEN BoolResult(FALSE, r.at)
    ELSE r

\* get_stock_price ends with r: its caller has r, or validate_symbol's
\* reading of it
ApiFinish(p, r) ==
    /\ Finish(p, IF call[p].op = "validate_symbol" THEN validate_symbol(r) ELSE r)
    /\ locals' = [locals EXCEPT ![p].outcome = r.kind,
                                ![p].checked = IF r.at = "gsp_read" THEN now ELSE @,
                                ![p].requested = IF r.at = "gsp_request" THEN TRUE ELSE @]

\* cache_key = f"price_{symbol}", f"info_{symbol}",
\* f"historical_{symbol}_{outputsize}" (outputsize left at its default)
LookupKey(c) ==
    CacheKey(IF c.op = "get_company_info" THEN "info"
             ELSE IF c.op = "get_historical_data" THEN "historical"
             ELSE "price",
             c.symbol)

\* what requests.get can meet for the function the method asks for
Responses(op) == IF op = "get_company_info" THEN InfoResponses ELSE ApiResponses

\* the method's reading of the response
Fetch(op, resp) ==
    IF op = "get_company_info" THEN get_company_info(resp)
    ELSE IF op = "get_historical_data" THEN get_historical_data(resp)
    ELSE get_stock_price(resp)

\* the start of get_stock_price, get_company_info or get_historical_data
\* (`op`), or of validate_symbol, which calls get_stock_price
StartLookup(p, op) ==
    /\ pc[p] = "idle" /\ nops < MaxCalls
    /\ \E s \in Symbols : call' = [call EXCEPT ![p] = Call(op, NoCall.user_id, s, 0)]
    /\ pc' = [pc EXCEPT ![p] = "gsp_in"]
    /\ locals' = [locals EXCEPT ![p] = [NoLocals EXCEPT !.seen = Len(served)]]
    /\ nops' = nops + 1
    /\ UNCHANGED <<cache, now, served, price, result>>
    /\ UNCHANGED <<portfolio, transactions, writer, tx, view, clock, authVars>>

\* a request thread calls stock_api.get_stock_price(symbol)
stock_price_call(p) == StartLookup(p, "get_stock_price")

\* a thread calls validate_symbol(symbol), which calls get_stock_price
validate_symbol_call(p) == StartLookup(p, "validate_symbol")

\* a request thread calls stock_api.get_company_info(symbol)
company_info_call(p) == StartLookup(p, "get_company_info")

\* a request thread calls stock_api.get_historical_data(symbol)
historical_data_call(p) == StartLookup(p, "get_historical_data")

\* _get_cached_data: if cache_key in self.cache
gsp_in(p) ==
    /\ pc[p] = "gsp_in"
    /\ pc' = [pc EXCEPT ![p] =
                IF cache[LookupKey(call[p])].present
                THEN "gsp_read" ELSE "gsp_request"]
    /\ locals' = [locals EXCEPT ![p].checked = now]
    /\ UNCHANGED <<cache, now, served, call, price, result, nops>>
    /\ UNCHANGED <<portfolio, transactions, writer, tx, view, clock, authVars>>

\* data, timestamp = self.cache[cache_key]; the age test; return data
gsp_read(p) ==
    /\ pc[p] = "gsp_read"
    /\ LET entry == cache[LookupKey(call[p])]
       IN  IF ~entry.present
           THEN ApiFinish(p, Raised(KeyError, "gsp_read"))
           ELSE IF Fresh(entry.timestamp)
                THEN ApiFinish(p, Returned(0, entry.data, 0, "gsp_read"))
                ELSE /\ pc' = [pc EXCEPT ![p] = "gsp_del"]
                     /\ locals' = [locals EXCEPT ![p].data = entry.data,
                                                 ![p].timestamp = entry.timestamp,
                                                 ![p].expired = TRUE,
                                                 ![p].checked = now]
                     /\ UNCHANGED <<price, result>>
    /\ UNCHANGED <<cache, now, served, call, nops>>
    /\ UNCHANGED <<portfolio, transactions, writer, tx, view, clock, authVars>>

\* del self.cache[cache_key]; return None
gsp_del(p) ==
    /\ pc[p] = "gsp_del"
    /\ LET key == LookupKey(call[p])
       IN  IF ~cache[key].present
           THEN ApiFinish(p, Raised(KeyError, "gsp_del")) /\ UNCHANGED cache
           ELSE /\ cache' = [cache EXCEPT ![key] = NoEntry]
                /\ pc' = [pc EXCEPT ![p] = "gsp_request"]
                /\ UNCHANGED <<price, result, locals>>
    /\ UNCHANGED <<now, served, call, nops>>
    /\ UNCHANGED <<portfolio, transactions, writer, tx, view, clock, authVars>>

\* a plausible slip: the cache written in a finally clause, whatever the
\* outcome
CacheOutcomeAlways(key, current_data) ==
    [cache EXCEPT ![key] = Entry(current_data.close, now)]

\* self._cache_data(cache_key, result), reached when nothing was raised
CacheOutcome(key, current_data) ==
    IF current_data.ok THEN [cache EXCEPT ![key] = Entry(current_data.close, now)]
    ELSE cache

\* requests.get answers; the body is read, cached and returned, or the
\* error is raised
gsp_request(p) ==
    /\ pc[p] = "gsp_request"
    /\ \E resp \in Responses(call[p].op) :
        LET current_data == Fetch(call[p].op, resp)
            key == LookupKey(call[p])
        IN  /\ cache' = CacheOutcome(key, current_data)
            /\ IF current_data.ok
               THEN /\ served' = IF key[1] = "price"
                                  THEN Append(served, Served(call[p].symbol, current_data.close, now))
                                  ELSE served
                    /\ ApiFinish(p, Returned(0, current_data.close, 0, "gsp_request"))
               ELSE /\ ApiFinish(p, Raised(current_data.error, "gsp_request"))
                    /\ UNCHANGED served
    /\ UNCHANGED <<now, call, nops>>
    /\ UNCHANGED <<portfolio, transactions, writer, tx, view, clock, authVars>>

\* time passes.  The clock is looked at when the instance is made, a
\* minute before the cache duration is over, when it is over and a minute
\* later; it starts to count when the cache gets its first entry.
Pass ==
    /\ served # <<>> \/ \E key \in CacheKeys : cache[key].present
    /\ now < MaxNow
    /\ now' = IF now < CacheDuration - 1 THEN CacheDuration - 1 ELSE now + 1
    /\ UNCHANGED <<cache, served, locals, pc, call, price, result, nops>>
    /\ UNCHANGED <<portfolio, transactions, writer, tx, view, clock, authVars>>

\* the three cached methods of one instance, called one after the other
Client == "t1"

CacheNext ==
    \/ Pass
    \/ stock_price_call(Client)
    \/ company_info_call(Client)
    \/ historical_data_call(Client)
    \/ gsp_in(Client)
    \/ gsp_read(Client)
    \/ gsp_del(Client)
    \/ gsp_request(Client)
    \/ Return(Client)

CacheSpec == FreshInit /\ [][CacheNext]_vars

\* ---------------------------------------------------------- get_stock_info
InfoParts == {"current_price", "company_info", "historical_data"}

\* a plausible slip: the failure logged, and the parts at hand returned
InfoSwallowed(l, part) ==
    [result |-> Returned(0, l.current_price, 0, "gsi_return"), locals |-> l]

\* except Exception as e: logger.error(...); raise -- the error of the
\* failing call goes to the caller, and the parts at hand go with the frame
InfoRaised(l, part) ==
    [result |-> Raised(part.error, "gsi_failed"),
     locals |-> [NoLocals EXCEPT !.outcomes = l.outcomes]]

\* PortfolioManager.get_stock_info, called on a manager made for the call
\* (User.get_stock_info): its StockAPI starts with an empty cache, so each
\* of the three calls asks the API
get_stock_info(p) ==
    /\ pc[p] = "idle" /\ nops < MaxCalls
    /\ \E s \in Symbols : call' = [call EXCEPT ![p] = Call("get_stock_info", NoCall.user_id, s, 0)]
    /\ pc' = [pc EXCEPT ![p] = "gsi_price"]
    /\ locals' = [locals EXCEPT ![p] = NoLocals]
    /\ nops' = nops + 1
    /\ UNCHANGED <<cache, now, served, price, result>>
    /\ UNCHANGED <<portfolio, transactions, writer, tx, view, clock, authVars>>

\* one of the three calls ends with `part`; `l` is the frame with the
\* call's outcome noted
InfoStep(p, l, part, name, next) ==
    IF part.ok
    THEN LET got == [l EXCEPT !.parts = @ \cup {name}]
         IN  IF next = "gsi_return"
             THEN /\ locals' = [locals EXCEPT ![p] = got]
                  /\ Finish(p, Returned(0, got.current_price, 0, "gsi_return"))
             ELSE /\ locals' = [locals EXCEPT ![p] = got]
                  /\ pc' = [pc EXCEPT ![p] = next]
                  /\ UNCHANGED <<price, result>>
    ELSE LET failed == InfoRaised(l, part)
         IN  /\ Finish(p, failed.result)
             /\ locals' = [locals EXCEPT ![p] = failed.locals]

\* current_price = self.stock_api.get_stock_price(symbol)
gsi_price(p) ==
    /\ pc[p] = "gsi_price"
    /\ \E resp \in ApiResponses :
        LET current_price == get_stock_price(resp)
            l == [locals[p] EXCEPT !.current_price = current_price.close,
                                   !.outcomes = Append(@, IF current_price.ok THEN "ok"
                                                          ELSE current_price.error)]
        IN  InfoStep(p, l, current_price, "current_price", "gsi_company")
    /\ UNCHANGED <<cache, now, served, call, nops>>
    /\ UNCHANGED <<portfolio, transactions, writer, tx, view, clock, authVars>>

\* company_info = self.stock_api.get_company_info(symbol)
gsi_company(p) ==
    /\ pc[p] = "gsi_company"
    /\ \E resp \in InfoResponses :
        LET company_info == get_company_info(resp)
            l == [locals[p] EXCEPT !.company_info = company_info.close,
                                   !.outcomes = Append(@, IF company_info.ok THEN "ok"
                                                          ELSE company_info.error)]
        IN  InfoStep(p, l, company_info, "company_info", "gsi_history")
    /\ UNCHANGED <<cache, now, served, call, nops>>
    /\ UNCHANGED <<portfolio, transactions, writer, tx, view, clock, authVars>>

\* historical_data = self.stock_api.get_historical_data(symbol); return {...}
gsi_history(p) ==
    /\ pc[p] = "gsi_history"
    /\ \E resp \in ApiResponses :
        LET historical_data == get_historical_data(resp)
            l == [locals[p] EXCEPT !.historical_data = historical_data.close,
                                   !.outcomes = Append(@, IF historical_data.ok THEN "ok"
                                                          ELSE historical_data.error)]
        IN  InfoStep(p, l, historical_data, "historical_data", "gsi_return")
    /\ UNCHANGED <<cache, now, served, call, nops>>
    /\ UNCHANGED <<portfolio, transactions, writer, tx, view, clock, authVars>>

\* the reading calls alone: the portfolio, the history, the information on
\* a stock, by every caller
QueryNext ==
    \E p \in Procs :
        \/ get_portfolio(p)
        \/ gp_price(p)
        \/ get_transaction_history(p)
        \/ get_stock_info(p)
        \/ gsi_price(p)
        \/ gsi_company(p)
        \/ gsi_history(p)
        \/ Return(p)

QuerySpec == Init /\ [][QueryNext]_vars

\* the callers of the shared StockAPI instance, while time passes
ApiInit == FreshInit

ApiNext ==
    \/ Pass
    \/ \E p \in Procs :
        \/ stock_price_call(p)
        \/ gsp_in(p)
        \/ gsp_read(p)
        \/ gsp_del(p)
        \/ gsp_request(p)
        \/ Return(p)

ApiSpec == ApiInit /\ [][ApiNext]_vars

\* the callers of validate_symbol on the shared instance
ValidateNext ==
    \/ Pass
    \/ \E p \in Procs :
        \/ validate_symbol_call(p)
        \/ gsp_in(p)
        \/ gsp_read(p)
        \/ gsp_del(p)
        \/ gsp_request(p)
        \/ Return(p)

ValidateSpec == ApiInit /\ [][ValidateNext]_vars

\* the callers of get_stock_info
InfoNext ==
    \E p \in Procs :
        \/ get_stock_info(p)
        \/ gsi_price(p)
        \/ gsi_company(p)
        \/ gsi_history(p)
        \/ Return(p)

InfoSpec == ApiInit /\ [][InfoNext]_vars

\* ============================================================ User.create
Usernames == {"", "alice", "bob"}
Passwords == {"", "secret", "guess"}

\* bcrypt.gensalt(): one of the salts the generator can give
Salts == {1, 2}

\* bcrypt.hashpw(password, salt): the hash carries its salt, and differs
\* when the password or the salt does
hashpw(password, salt) == <<salt, password>>

\* bcrypt.checkpw(password, hashed): the password hashed again with the
\* salt of `hashed` gives `hashed`
checkpw(password, hashed) == hashed # <<>> /\ hashpw(password, hashed[1]) = hashed

RequiredError == "ValueError: Username and password are required"
UsernameTaken == "ValueError: Username is already taken"
IntegrityError == "sqlite3.IntegrityError"

\* `if not username or not password: raise ValueError(...)`
HasCredentials(username, password) == username # "" /\ password # ""

\* the table's constraint on username: no committed row has that name
UniqueUsername(rows, username) ==
    \A i \in 1..Len(rows) : rows[i].username # username

\* a plausible slip: `except sqlite3.Error` placed first, which takes the
\* IntegrityError as well and re-raises it as it is
CreateErrorUnmapped(e) == e

\* except sqlite3.IntegrityError: raise ValueError("Username ... is already
\* taken"); except sqlite3.Error: raise
CreateError(e) == IF e = IntegrityError THEN UsernameTaken ELSE e

\* User.create up to the INSERT
create(p) ==
    /\ pc[p] = "idle" /\ nops < MaxOps
    /\ \E username \in Usernames, password \in Passwords, salt \in Salts :
        /\ IF HasCredentials(username, password)
           THEN locals' = [locals EXCEPT ![p] =
                             [NoLocals EXCEPT !.username = username, !.password = password,
                                              !.salt = salt,
                                              !.hashed_password = hashpw(password, salt)]]
           ELSE locals' = [locals EXCEPT ![p] =
                             [NoLocals EXCEPT !.username = username, !.password = password]]
        /\ IF HasCredentials(username, password)
           THEN pc' = [pc EXCEPT ![p] = "create_insert"] /\ UNCHANGED <<result, price>>
           ELSE Finish(p, Raised(RequiredError, "create"))
    /\ call' = [call EXCEPT ![p] = Call("create", NoCall.user_id, NoCall.symbol, 0)]
    /\ nops' = nops + 1
    /\ UNCHANGED <<portfolio, transactions, writer, tx, view, clock>>
    /\ UNCHANGED <<cache, now, served, users>>

\* INSERT INTO users (username, password_hash, salt) VALUES (?, ?, ?);
\* user_id = cursor.lastrowid
create_insert(p) ==
    /\ pc[p] = "create_insert"
    /\ WriteLockFree
    /\ IF UniqueUsername(users, locals[p].username)
       THEN /\ writer' = p
            /\ tx' = [tx EXCEPT ![p].users =
                        <<UserRow(Len(users) + 1, locals[p].username, locals[p].salt,
                                  locals[p].hashed_password, 0)>>]
            /\ pc' = [pc EXCEPT ![p] = "create_commit"]
            /\ UNCHANGED <<result, price>>
       ELSE /\ Finish(p, Raised(CreateError(IntegrityError), "create_insert"))
            /\ UNCHANGED <<writer, tx>>
    /\ UNCHANGED <<portfolio, transactions, call, nops, view, clock>>
    /\ UNCHANGED <<apiVars, authVars>>

\* conn.commit(); return cls(user_id, username, salt, password_hash)
create_commit(p) ==
    /\ pc[p] = "create_commit"
    /\ users' = users \o tx[p].users
    /\ writer' = ReleaseLock(p)
    /\ tx' = [tx EXCEPT ![p] = NoTx]
    /\ Finish(p, Returned(tx[p].users[1].id, 0, 0, "create_commit"))
    /\ UNCHANGED <<portfolio, transactions, call, nops, view, clock>>
    /\ UNCHANGED apiVars

\* ---------------------------------------------------------------- login
InvalidLogin == "ValueError: Invalid username or password"
UserNotFound == "ValueError: User not found"

\* SELECT id, salt, password_hash FROM users WHERE username = ?; fetchone()
SelectUser(username) ==
    LET found == {i \in 1..Len(users) : users[i].username = username}
    IN  IF found = {} THEN <<>> ELSE <<users[CHOOSE i \in found : TRUE]>>

\* the committed table with the row of this id replaced
ReplaceUser(rows, row) ==
    [i \in 1..Len(rows) |-> IF rows[i].id = row.id THEN row ELSE rows[i]]

\* a plausible slip: an error that tells an unknown username from a wrong
\* password
LoginFailureTelling(row) == IF row = <<>> THEN UserNotFound ELSE InvalidLogin

\* `if not row: raise ValueError("Invalid username or password")` and the
\* else branch of `if bcrypt.checkpw(...)`, which raises the same
LoginFailure(row) == InvalidLogin

\* User.login(username, password) is called
login(p) ==
    /\ pc[p] = "idle" /\ nops < MaxOps
    /\ \E username \in Usernames, password \in Passwords :
        locals' = [locals EXCEPT ![p] =
                     [NoLocals EXCEPT !.username = username, !.password = password]]
    /\ call' = [call EXCEPT ![p] = Call("login", NoCall.user_id, NoCall.symbol, 0)]
    /\ pc' = [pc EXCEPT ![p] = "login_select"]
    /\ nops' = nops + 1
    /\ UNCHANGED <<portfolio, transactions, writer, tx, view, clock, price, result>>
    /\ UNCHANGED <<cache, now, served, users>>

\* the SELECT, `if not row`, and bcrypt.checkpw against the row's hash
login_select(p) ==
    /\ pc[p] = "login_select"
    /\ LET row == SelectUser(locals[p].username)
       IN  IF row # <<>> /\ checkpw(locals[p].password, row[1].password_hash)
           THEN /\ locals' = [locals EXCEPT ![p].id = row[1].id,
                                            ![p].salt = row[1].salt,
                                            ![p].hashed_password = row[1].password_hash]
                /\ pc' = [pc EXCEPT ![p] = "login_update"]
                /\ UNCHANGED <<result, price>>
           ELSE /\ Finish(p, Raised(LoginFailure(row), "login_select"))
                /\ UNCHANGED locals
    /\ UNCHANGED <<portfolio, transactions, writer, tx, call, nops, view, clock>>
    /\ UNCHANGED <<cache, now, served, users>>

\* UPDATE users SET last_login = CURRENT_TIMESTAMP WHERE id = ?
login_update(p) ==
    /\ pc[p] = "login_update"
    /\ WriteLockFree
    /\ writer' = p
    /\ tx' = [tx EXCEPT ![p].users =
                SelectSeq(users, LAMBDA r : r.id = locals[p].id)]
    /\ pc' = [pc EXCEPT ![p] = "login_commit"]
    /\ UNCHANGED <<portfolio, transactions, call, nops, view, clock, price, result>>
    /\ UNCHANGED <<apiVars, authVars>>

\* conn.commit(); return cls(user_id, username, salt, stored_hash)
login_commit(p) ==
    /\ pc[p] = "login_commit"
    /\ users' = IF tx[p].users = <<>> THEN users
                ELSE ReplaceUser(users, [tx[p].users[1] EXCEPT !.last_login = CurrentTimestamp])
    /\ writer' = ReleaseLock(p)
    /\ tx' = [tx EXCEPT ![p] = NoTx]
    /\ Finish(p, Returned(locals[p].id, 0, 0, "login_commit"))
    /\ UNCHANGED <<portfolio, transactions, call, nops, view, clock>>
    /\ UNCHANGED apiVars

\* ------------------------------------------------------ update_password
IncorrectCurrent == "ValueError: Current password is incorrect"

\* a plausible slip: the check of the current password left out
CheckCurrentSkipped(l) == TRUE

\* bcrypt.checkpw(current_password.encode('utf-8'), self._hashed_password)
CheckCurrent(l) == checkpw(l.password, l.hashed_password)

\* user = User.get_by_id(user_id): the User object is made from the row;
\* user.update_password(current_password, new_password) follows
update_password(p) ==
    /\ pc[p] = "idle" /\ nops < MaxOps
    /\ \E i \in 1..Len(users), current_password \in Passwords, new_password \in Passwords :
        locals' = [locals EXCEPT ![p] =
                     [NoLocals EXCEPT !.id = users[i].id,
                                      !.username = users[i].username,
                                      !.salt = users[i].salt,
                                      !.hashed_password = users[i].password_hash,
                                      !.password = current_password,
                                      !.new_password = new_password]]
    /\ call' = [call EXCEPT ![p] = Call("update_password", NoCall.user_id, NoCall.symbol, 0)]
    /\ pc' = [pc EXCEPT ![p] = "up_check"]
    /\ nops' = nops + 1
    /\ UNCHANGED <<portfolio, transactions, writer, tx, view, clock, price, result>>
    /\ UNCHANGED <<cache, now, served, users>>

\* the check against the object's hash; new_salt = bcrypt.gensalt()
up_check(p) ==
    /\ pc[p] = "up_check"
    /\ IF CheckCurrent(locals[p])
       THEN /\ \E new_salt \in Salts :
                 locals' = [locals EXCEPT ![p].new_salt = new_salt]
            /\ pc' = [pc EXCEPT ![p] = "up_update"]
            /\ UNCHANGED <<result, price>>
       ELSE /\ Finish(p, Raised(IncorrectCurrent, "up_check"))
            /\ UNCHANGED locals
    /\ UNCHANGED <<portfolio, transactions, writer, tx, call, nops, view, clock>>
    /\ UNCHANGED <<cache, now, served, users>>

\* UPDATE users SET password_hash = ?, salt = ? WHERE id = ?
up_update(p) ==
    /\ pc[p] = "up_update"
    /\ WriteLockFree
    /\ writer' = p
    /\ tx' = [tx EXCEPT ![p].users =
                SelectSeq(users, LAMBDA r : r.id = locals[p].id)]
    /\ pc' = [pc EXCEPT ![p] = "up_commit"]
    /\ UNCHANGED <<portfolio, transactions, call, nops, view, clock, price, result>>
    /\ UNCHANGED <<apiVars, authVars>>

\* conn.commit(); self._salt = new_salt; self._hashed_password = new_hash
up_commit(p) ==
    /\ pc[p] = "up_commit"
    /\ LET new_hash == hashpw(locals[p].new_password, locals[p].new_salt)
       IN  /\ users' = IF tx[p].users = <<>> THEN users
                       ELSE ReplaceUser(users, [tx[p].users[1] EXCEPT
                                                  !.password_hash = new_hash,
                                                  !.salt = locals[p].new_salt])
           /\ locals' = [locals EXCEPT ![p].salt = locals[p].new_salt,
                                       ![p].hashed_password = new_hash]
    /\ writer' = ReleaseLock(p)
    /\ tx' = [tx EXCEPT ![p] = NoTx]
    /\ Finish(p, Returned(locals[p].id, 0, 0, "up_commit"))
    /\ UNCHANGED <<portfolio, transactions, call, nops, view, clock>>
    /\ UNCHANGED <<cache, now, served>>

\* the table is empty, or holds the user a committed create left
SeedUsers == <<UserRow(1, "alice", 1, hashpw("secret", 1), 0)>>

AuthInit ==
    /\ portfolio = [k \in Keys |-> NoRow] /\ transactions = <<>>
    /\ writer = NoProc
    /\ pc = [p \in Procs |-> "idle"]
    /\ call = [p \in Procs |-> NoCall]
    /\ price = [p \in Procs |-> 0]
    /\ tx = [p \in Procs |-> NoTx]
    /\ result = [p \in Procs |-> NoResult]
    /\ nops = 0
    /\ view = [p \in Procs |-> NoView]
    /\ clock = 1
    /\ NoStockData
    /\ users \in {<<>>, SeedUsers}

AuthNext ==
    \E p \in Procs :
        \/ create(p)
        \/ create_insert(p)
        \/ create_commit(p)
        \/ login(p)
        \/ login_select(p)
        \/ login_update(p)
        \/ login_commit(p)
        \/ update_password(p)
        \/ up_check(p)
        \/ up_update(p)
        \/ up_commit(p)
        \/ db_error(p)
        \/ Return(p)

AuthSpec == AuthInit /\ [][AuthNext]_vars

\* ================================================================ claims
\* the caller p takes a step of its call
Stepped(p) == pc'[p] # pc[p]
IsKey(r, key) == <<r.user_id, r.symbol>> = key

\* total quantity of the committed rows of `type` for `key`
RECURSIVE SumQuantity(_, _, _)
SumQuantity(rows, key, type) ==
    IF rows = <<>> THEN 0
    ELSE (IF IsKey(Head(rows), key) /\ Head(rows).transaction_type = type
          THEN Head(rows).quantity ELSE 0) + SumQuantity(Tail(rows), key, type)

\* total of quantity * price of the committed BUY rows for `key`
RECURSIVE SumCost(_, _)
SumCost(rows, key) ==
    IF rows = <<>> THEN 0
    ELSE (IF IsKey(Head(rows), key) /\ Head(rows).transaction_type = "BUY"
          THEN Head(rows).quantity * Head(rows).price ELSE 0) + SumCost(Tail(rows), key)

\* the position the rows of `key` give when applied one after another
RECURSIVE Replay(_, _, _)
Replay(rows, key, row) ==
    IF rows = <<>> THEN row
    ELSE LET h == Head(rows)
             next == IF ~IsKey(h, key) THEN row
                     ELSE IF h.transaction_type = "BUY"
                          THEN UpsertRow(row, h.quantity, h.price)
                          ELSE Row(row.quantity - h.quantity, row.average_price)
         IN  Replay(Tail(rows), key, next)

\* C1 (stated as claimed; the code violates it): under every interleaving of
\* sells no position's stored quantity is negative, and the sells that
\* succeeded on a position sold at most what was bought into it.
C1_OversellInvariant ==
    \A key \in Keys :
        /\ portfolio[key].quantity >= 0
        /\ SumQuantity(transactions, key, "SELL") <= SumQuantity(transactions, key, "BUY")

\* C2 (stated as claimed; the code violates it): a sell's decrement is
\* applied only to a row holding at least the requested quantity at the
\* moment of the write, so the row it leaves is never negative.
C2_SellCheckAndDecrementAtomic ==
    \A p \in Procs :
        pc[p] \in {"sell_record", "sell_commit"} =>
            /\ tx[p].pos # <<>>
            /\ tx[p].pos[1].quantity >= 0

\* C3: a buy is all-or-nothing.  Every step of a buy leaves both tables as
\* they are, except the step that commits, which changes the position and
\* appends the matching BUY row together; a buy that ends otherwise has
\* raised its error and written nothing.
C3_BuyAllOrNothing ==
    [][\A p \in Procs :
        (call[p].op = "buy" /\ Stepped(p)) =>
            LET key == KeyOf(call[p])
                committed == result'[p].kind = "ok"
            IN  IF committed
                THEN /\ portfolio'[key] # portfolio[key]
                     /\ Len(transactions') = Len(transactions) + 1
                     /\ LET r == transactions'[Len(transactions')]
                        IN  /\ IsKey(r, key)
                            /\ r.transaction_type = "BUY"
                            /\ r.quantity = call[p].quantity
                            /\ portfolio'[key].quantity = portfolio[key].quantity + r.quantity
                ELSE /\ portfolio' = portfolio
                     /\ transactions' = transactions
                     /\ pc'[p] = "done" => result'[p].kind \in PriceErrors \cup {StoreError}]_vars

\* C3 witness: a buy failed after its position write and before its row was
\* inserted, and the position it aimed at is as the earlier buy left it.
C3_Witness ==
    \E p \in Procs :
        /\ pc[p] = "done" /\ call[p].op = "buy"
        /\ result[p].kind = StoreError /\ result[p].at = "buy_record"
        /\ KeyOf(call[p]) = SeedKey
        /\ portfolio = SeedPortfolio /\ transactions = SeedTransactions

\* C4: a sell is all-or-nothing.  The decrement and the SELL row are
\* committed by one step; every other step of a sell leaves both tables as
\* they are, and a sell that ends otherwise has raised its error.
C4_SellAllOrNothing ==
    [][\A p \in Procs :
        (call[p].op = "sell" /\ Stepped(p)) =>
            LET key == KeyOf(call[p])
                committed == result'[p].kind = "ok"
            IN  IF committed
                THEN /\ portfolio'[key].quantity = portfolio[key].quantity - call[p].quantity
                     /\ transactions' =
                            Append(transactions,
                                   TxRow(Len(transactions) + 1, call[p].user_id,
                                         call[p].symbol, call[p].quantity, price[p], "SELL",
                                         tx[p].rows[1].timestamp))
                ELSE /\ portfolio' = portfolio
                     /\ transactions' = transactions
                     /\ pc'[p] = "done" =>
                            result'[p].kind \in PriceErrors \cup {StoreError, InsufficientShares}]_vars

\* C4 witness: a sell failed at its commit, after both of its writes, and
\* the tables are as before it.
C4_Witness ==
    \E p \in Procs :
        /\ pc[p] = "done" /\ call[p].op = "sell"
        /\ result[p].kind = StoreError /\ result[p].at = "sell_commit"
        /\ portfolio = SeedPortfolio /\ transactions = SeedTransactions

\* C5: concurrent buys lose no update.  In every committed state each
\* position is what its committed rows give when applied one after another
\* in commit order.
C5_NoLostUpdate ==
    \A key \in Keys : portfolio[key] = Replay(transactions, key, NoRow)

\* C5 witness: two buys of the same position in flight together, one
\* holding the write lock with its upsert made, the other with its price
\* fetched and its transaction begun, on a position bought before.
C5_Witness ==
    \E p, q \in Procs :
        /\ p # q
        /\ call[p].op = "buy" /\ call[q].op = "buy"
        /\ KeyOf(call[p]) = KeyOf(call[q])
        /\ pc[p] = "buy_commit" /\ writer = p
        /\ pc[q] = "buy_upsert"
        /\ portfolio[KeyOf(call[p])].present

C7_BuyEffect ==
    [][\A p \in Procs :
        (call[p].op = "buy" /\ Stepped(p) /\ result'[p].kind = "ok") =>
            LET key == KeyOf(call[p])
                old == portfolio[key]
                new == portfolio'[key]
                k == call[p].quantity
                c == price[p]
                a == old.average_price
                b == new.average_price
            IN  /\ new.present
                /\ IF ~old.present
                   THEN new.quantity = k /\ b = [n |-> c, d |-> 1]
                   ELSE /\ new.quantity = old.quantity + k
                        /\ IF a = NullAvg \/ old.quantity + k = 0
                           THEN b = NullAvg
                           ELSE /\ b.d > 0
                                /\ b.n * (a.d * (old.quantity + k))
                                     = b.d * (a.n * old.quantity + c * k * a.d)
                /\ \A other \in Keys \ {key} : portfolio'[other] = portfolio[other]
                /\ transactions' =
                       Append(transactions,
                              TxRow(Len(transactions) + 1, call[p].user_id,
                                    call[p].symbol, k, c, "BUY",
                                    tx[p].rows[1].timestamp))]_vars

\* C7 witness: a buy has returned after buying into an existing position at
\* a price other than its average.
C7_Witness ==
    \E p \in Procs :
        /\ pc[p] = "done" /\ call[p].op = "buy" /\ result[p].kind = "ok"
        /\ portfolio[KeyOf(call[p])].quantity > call[p].quantity
        /\ portfolio[KeyOf(call[p])].average_price.d > 1

\* C8: the step that commits a sell of k changes nothing of the portfolio
\* but the quantity of its position, which it lowers by exactly k: the
\* average_price stays as it was.
C8_SellKeepsAverage ==
    [][\A p \in Procs :
        (call[p].op = "sell" /\ Stepped(p) /\ result'[p].kind = "ok") =>
            LET key == KeyOf(call[p])
            IN  /\ portfolio'[key].average_price = portfolio[key].average_price
                /\ portfolio'[key].present
                /\ portfolio' =
                       [portfolio EXCEPT ![key].quantity = @ - call[p].quantity]]_vars

\* C8 witness: a sell of part of a holding has returned, shares are left
\* and the average is the price they were bought at.
C8_Witness ==
    \E p \in Procs :
        /\ pc[p] = "done" /\ call[p].op = "sell" /\ result[p].kind = "ok"
        /\ KeyOf(call[p]) = SeedKey
        /\ portfolio[SeedKey].quantity = MaxQty - call[p].quantity
        /\ portfolio[SeedKey].quantity > 0
        /\ portfolio[SeedKey].average_price = [n |-> 1, d |-> 1]

\* C9: when sell's read finds no row, or a row holding less than the
\* requested quantity, the call ends there with the insufficient-shares
\* error (unless the read itself raised the database's error) and both
\* tables are unchanged; when the row holds the requested quantity or more,
\* exactly the requested quantity included, the check does not reject it.
C9_InsufficientShares ==
    [][\A p \in Procs :
        (pc[p] = "sell_check" /\ Stepped(p)) =>
            LET row == portfolio[KeyOf(call[p])]
                short == ~row.present \/ row.quantity < call[p].quantity
            IN  /\ short =>
                    /\ pc'[p] = "done"
                    /\ result'[p].kind \in {InsufficientShares, StoreError}
                    /\ portfolio' = portfolio /\ transactions' = transactions
                /\ ~short => result'[p].kind # InsufficientShares
                /\ (result'[p].kind # StoreError) =>
                      (short <=> result'[p].kind = InsufficientShares)]_vars

\* C9 witness: a sell of more than the shares held was rejected, the
\* position still holding them.
C9_Witness ==
    \E p \in Procs :
        /\ pc[p] = "done" /\ call[p].op = "sell"
        /\ result[p].kind = InsufficientShares
        /\ portfolio[KeyOf(call[p])].present
        /\ portfolio[KeyOf(call[p])].quantity > 0
        /\ portfolio[KeyOf(call[p])].quantity < call[p].quantity

\* C10: a buy or sell called with quantity <= 0 ends at once with
\* "Quantity must be positive", never reaching the price fetch or the
\* database, and leaves both tables unchanged.
C10_InvalidQuantity ==
    [][\A p \in Procs :
        (pc[p] = "idle" /\ Stepped(p) /\ call'[p].op \in {"buy", "sell"}) =>
            IF call'[p].quantity <= 0
            THEN /\ pc'[p] = "done"
                 /\ result'[p].kind = QuantityError
                 /\ portfolio' = portfolio /\ transactions' = transactions
                 /\ price' = price /\ tx' = tx /\ writer' = writer
            ELSE /\ pc'[p] \in {"buy_price", "sell_check"}
                 /\ result'[p].kind = "none"]_vars

\* C10 witness: a sell and a buy both rejected for their quantity.
C10_Witness ==
    \E p, q \in Procs :
        /\ pc[p] = "done" /\ call[p].op = "sell" /\ call[p].quantity <= 0
        /\ result[p].kind = QuantityError /\ result[p].at = "sell_stock"
        /\ pc[q] = "done" /\ call[q].op = "buy" /\ call[q].quantity <= 0
        /\ result[q].kind = QuantityError /\ result[q].at = "buy_stock"

\* C11: while a buy or a sell waits for the price source its connection has
\* no transaction open and holds no lock, and once its transaction is begun
\* the price is already in hand.
C11_PriceBeforeTransaction ==
    \A p \in Procs :
        /\ pc[p] \in {"buy_price", "sell_price"} =>
              /\ tx[p] = NoTx
              /\ writer # p
              /\ price[p] = 0
        /\ pc[p] \in {"buy_begin", "buy_upsert", "buy_record", "buy_commit",
                      "sell_begin", "sell_update", "sell_record", "sell_commit"} =>
              price[p] \in Prices
        /\ (tx[p] # NoTx \/ writer = p) =>
              pc[p] \in {"buy_record", "buy_commit", "sell_record", "sell_commit"}

\* C11 witness: one caller waits for a price while another holds the write
\* lock with its transaction open.
C11_Witness ==
    \E p, q \in Procs :
        /\ pc[p] \in {"buy_price", "sell_price"}
        /\ writer = q /\ q # p /\ tx[q] # NoTx

\* C12: the step in which a buy or a sell asks for the price either gets a
\* price and goes on to its transaction, or ends the call with the price
\* source's error; in the latter case nothing is written: both tables, the
\* write lock and the connection's pending writes are as before.
C12_PriceFailureWritesNothing ==
    [][\A p \in Procs :
        (pc[p] \in {"buy_price", "sell_price"} /\ Stepped(p)) =>
            IF pc'[p] = "done"
            THEN /\ result'[p].kind \in PriceErrors
                 /\ portfolio' = portfolio /\ transactions' = transactions
                 /\ tx' = tx /\ writer' = writer
            ELSE /\ pc'[p] \in {"buy_begin", "sell_begin"}
                 /\ price'[p] \in Prices
                 /\ result'[p].kind = "none"]_vars

\* C12 witness: a sell of shares that are held ended with the price
\* source's error, and a buy with the other one; the tables are untouched.
C12_Witness ==
    \E p, q \in Procs :
        /\ pc[p] = "done" /\ call[p].op = "sell"
        /\ result[p].kind = RequestException /\ result[p].at = "sell_price"
        /\ pc[q] = "done" /\ call[q].op = "buy"
        /\ result[q].kind = PriceValueError /\ result[q].at = "buy_price"
        /\ portfolio = SeedPortfolio /\ transactions = SeedTransactions

\* the finished reading calls
PortfolioDone(p) == call[p].op = "portfolio" /\ pc[p] = "done"
HistoryDone(p) == call[p].op = "history" /\ pc[p] = "done"

\* the ledger as it was when the call of p read the tables
LedgerRead(p) == SubSeq(transactions, 1, view[p].asof)

\* C13: the ledger is append-only.  Every step of every call, trading or
\* reading, leaves each committed row in its place with all its fields; the
\* ledger changes only by growing at its end.
C13_AppendOnly ==
    [][/\ Len(transactions') >= Len(transactions)
       /\ \A i \in 1..Len(transactions) : transactions'[i] = transactions[i]]_vars

\* C13 witness: a row was appended after the first one, which is as it was
\* committed, and a history call has read both.
C13_Witness ==
    \E p \in Procs :
        /\ HistoryDone(p) /\ result[p].kind = "ok"
        /\ Len(view[p].history) = Len(SeedTransactions) + 1
        /\ Len(transactions) = Len(SeedTransactions) + 1
        /\ transactions[1] = SeedTransactions[1]

\* C14: the list get_transaction_history returns is in descending
\* timestamp order: no entry is older than one after it, so rows stamped
\* T1 < T2 < T3 come as [T3, T2, T1].
C14_HistoryDescending ==
    \A p \in Procs :
        (HistoryDone(p) /\ result[p].kind = "ok") =>
            \A i, j \in 1..Len(view[p].history) :
                i < j => view[p].history[i].timestamp >= view[p].history[j].timestamp

\* C14 witness: a history of three rows of three different seconds, the
\* latest first.
C14_Witness ==
    \E p \in Procs :
        /\ HistoryDone(p) /\ result[p].kind = "ok"
        /\ Len(view[p].history) = 3
        /\ view[p].history[1].timestamp > view[p].history[2].timestamp
        /\ view[p].history[2].timestamp > view[p].history[3].timestamp
        /\ view[p].history[1].transaction_id > view[p].history[3].transaction_id

\* C15: the list get_transaction_history(u) returns has one entry for each
\* row of u committed when it read the ledger and no other entry: none of
\* another user, none of a transaction not yet committed, and an empty list
\* when u has no row.  Each entry carries the row's id, symbol, quantity,
\* price, type and timestamp, and total = price * quantity.
C15_HistoryExact ==
    \A p \in Procs :
        (HistoryDone(p) /\ result[p].kind = "ok") =>
            LET u == call[p].user_id
                h == view[p].history
                mine == {i \in 1..view[p].asof : transactions[i].user_id = u}
            IN  /\ view[p].asof <= Len(transactions)
                /\ Len(h) = Cardinality(mine)
                /\ \A i \in mine : \E j \in 1..Len(h) : h[j].transaction_id = transactions[i].id
                /\ \A j \in 1..Len(h) :
                       \E i \in mine :
                           LET t == transactions[i]
                           IN  /\ h[j].transaction_id = t.id
                               /\ h[j].symbol = t.symbol
                               /\ h[j].quantity = t.quantity
                               /\ h[j].price = t.price
                               /\ h[j].type = t.transaction_type
                               /\ h[j].timestamp = t.timestamp
                               /\ h[j].total = t.price * t.quantity

\* C15 witness: user 1 read its history while the ledger also held a row of
\* user 2 and a trade of user 1 was written but not yet committed.
C15_Witness ==
    \E p, q \in Procs :
        /\ HistoryDone(p) /\ result[p].kind = "ok" /\ call[p].user_id = 1
        /\ Len(view[p].history) = 2
        /\ \E j \in 1..2 : view[p].history[j].total > view[p].history[j].price
        /\ \E i \in 1..view[p].asof : transactions[i].user_id = 2
        /\ pc[q] \in {"buy_commit", "sell_commit"} /\ call[q].user_id = 1
        /\ view[p].asof = Len(transactions)

\* C16: get_portfolio is fail-fast.  While it prices its holdings it has
\* returned nothing; when a price cannot be fetched it ends with that error
\* and nothing of the portfolio built so far is returned; when it returns a
\* portfolio, every holding it read is in it.
C16_PortfolioFailFast ==
    \A p \in Procs :
        /\ pc[p] = "gp_price" => result[p].kind = "none"
        /\ PortfolioDone(p) =>
              IF result[p].kind = "ok"
              THEN Len(view[p].portfolio_data.holdings) = Len(view[p].holdings)
              ELSE /\ view[p] = NoView
                   /\ result[p].at = "gp_price" => result[p].kind \in PriceErrors \cup {TypeError}
                   /\ result[p].at = "get_portfolio" => result[p].kind = StoreError

\* C16 witness: the user holds two symbols and get_portfolio ended with the
\* price source's error.
C16_Witness ==
    \E p \in Procs :
        /\ PortfolioDone(p) /\ result[p].kind \in PriceErrors
        /\ \A s \in Symbols : portfolio[<<call[p].user_id, s>>].quantity > 0

\* the sum of the total_value entries of a list of holdings
RECURSIVE SumValue(_)
SumValue(hs) == IF hs = <<>> THEN 0 ELSE Head(hs).total_value + SumValue(Tail(hs))

\* C17: a portfolio returned by get_portfolio has one entry per row read, in
\* the order read, with the row's symbol, quantity and average_price, a
\* price the source answered, total_value = quantity * current_price and
\* gain_loss = total_value - quantity * average_price; its total_value is
\* the sum of the entries' total_value, 0 with no entry.
C17_PortfolioValues ==
    \A p \in Procs :
        (PortfolioDone(p) /\ result[p].kind = "ok") =>
            LET rows == view[p].holdings
                data == view[p].portfolio_data
            IN  /\ Len(data.holdings) = Len(rows)
                /\ \A i \in 1..Len(rows) :
                       LET h == data.holdings[i]
                           a == rows[i].average_price
                       IN  /\ h.symbol = rows[i].symbol
                           /\ h.quantity = rows[i].quantity
                           /\ h.average_price = a
                           /\ h.current_price \in Prices
                           /\ h.total_value = h.quantity * h.current_price
                           /\ a.d > 0 /\ h.gain_loss.d > 0
                           /\ h.gain_loss.n * a.d
                                = h.gain_loss.d * (h.total_value * a.d - h.quantity * a.n)
                /\ data.total_value = SumValue(data.holdings)
                /\ rows = <<>> => data = NoPortfolioData

\* C17 witness: a portfolio of two holdings, one of them of more than one
\* share and priced above its average.
C17_Witness ==
    \E p \in Procs :
        /\ PortfolioDone(p) /\ result[p].kind = "ok"
        /\ Len(view[p].portfolio_data.holdings) = 2
        /\ \E i \in 1..2 :
              /\ view[p].portfolio_data.holdings[i].quantity > 1
              /\ view[p].portfolio_data.holdings[i].gain_loss.n > 0

\* C18: the rows get_portfolio reads are exactly the user's positions that
\* held more than 0 shares when it read them, so a position sold down to 0
\* is not among the holdings and adds nothing to the total; and a position
\* that has a ledger row keeps its row in the portfolio table, whatever its
\* quantity.
C18_OnlyPositiveHoldings ==
    /\ \A p \in Procs :
          call[p].op = "portfolio" =>
              LET u == call[p].user_id
              IN  /\ \A i \in 1..Len(view[p].holdings) : view[p].holdings[i].quantity > 0
                  /\ (pc[p] = "gp_price" \/ (pc[p] = "done" /\ result[p].kind = "ok")) =>
                        \A s \in Symbols :
                            (\E i \in 1..Len(view[p].holdings) : view[p].holdings[i].symbol = s)
                                <=> Replay(LedgerRead(p), <<u, s>>, NoRow).quantity > 0
    /\ \A i \in 1..Len(transactions) :
          portfolio[<<transactions[i].user_id, transactions[i].symbol>>].present

\* C18 witness: get_portfolio returned after the user's only position was
\* sold down to 0: the row is still in the table and the portfolio is empty.
C18_Witness ==
    \E p \in Procs :
        /\ PortfolioDone(p) /\ result[p].kind = "ok"
        /\ view[p].asof = Len(transactions)
        /\ portfolio[<<call[p].user_id, "AAPL">>].present
        /\ portfolio[<<call[p].user_id, "AAPL">>].quantity = 0
        /\ view[p].portfolio_data = NoPortfolioData

\* C19: two get_portfolio calls for the same user that read the tables with
\* no trade committed between them, and were answered the same price for
\* each symbol, return the same holdings and the same total_value.
C19_PortfolioReadIdempotent ==
    \A p, q \in Procs :
        ( /\ p # q
          /\ PortfolioDone(p) /\ result[p].kind = "ok"
          /\ PortfolioDone(q) /\ result[q].kind = "ok"
          /\ call[p].user_id = call[q].user_id
          /\ view[p].asof = view[q].asof
          /\ \A i \in 1..Len(view[p].portfolio_data.holdings),
                j \in 1..Len(view[q].portfolio_data.holdings) :
                view[p].portfolio_data.holdings[i].symbol
                    = view[q].portfolio_data.holdings[j].symbol
                => view[p].portfolio_data.holdings[i].current_price
                    = view[q].portfolio_data.holdings[j].current_price )
        => view[p].portfolio_data = view[q].portfolio_data

\* C19 witness: two callers got the portfolio of the same user, who holds
\* shares, with no trade between their reads and at the same price.
C19_Witness ==
    \E p, q \in Procs :
        /\ p # q
        /\ PortfolioDone(p) /\ result[p].kind = "ok"
        /\ PortfolioDone(q) /\ result[q].kind = "ok"
        /\ call[p].user_id = call[q].user_id
        /\ view[p].asof = view[q].asof
        /\ view[p].portfolio_data.holdings # <<>>
        /\ view[p].portfolio_data = view[q].portfolio_data

\* the place of a step in buy_stock / sell_stock, in program order
StepRank(step) ==
    CASE step = "idle" -> 0
      [] step \in {"buy_price", "sell_check"} -> 1
      [] step = "sell_price" -> 2
      [] step \in {"buy_begin", "sell_begin"} -> 3
      [] step \in {"buy_upsert", "sell_update"} -> 4
      [] step \in {"buy_record", "sell_record"} -> 5
      [] step \in {"buy_commit", "sell_commit"} -> 6
      [] OTHER -> 7

\* C20: a buy or a sell goes through its steps once, in program order, and
\* never back: one BEGIN, one commit at most.  A step that meets a database
\* failure ends the call with that very error and leaves the tables as they
\* were; the call appends exactly one row when it returns normally and none
\* when it raises.
C20_NoRetry ==
    [][\A p \in Procs :
        (call'[p].op \in {"buy", "sell"} /\ Stepped(p)) =>
            /\ StepRank(pc'[p]) > StepRank(pc[p])
            /\ result'[p].kind = StoreError =>
                  /\ pc'[p] = "done" /\ pc[p] \in DbSteps
                  /\ portfolio' = portfolio /\ transactions' = transactions
                  /\ tx'[p] = NoTx /\ writer' # p
            /\ pc'[p] = "done" =>
                  IF result'[p].kind = "ok"
                  THEN /\ pc[p] \in {"buy_commit", "sell_commit"}
                       /\ Len(transactions') = Len(transactions) + 1
                       /\ SubSeq(transactions', 1, Len(transactions)) = transactions
                  ELSE transactions' = transactions
            /\ pc'[p] # "done" => transactions' = transactions]_vars

\* C20 witness: a buy gave up on the database's error at its first write,
\* while the other call went through and appended its one row.
C20_Witness ==
    \E p, q \in Procs :
        /\ pc[p] = "done" /\ call[p].op = "buy"
        /\ result[p].kind = StoreError /\ result[p].at = "buy_upsert"
        /\ pc[q] = "done" /\ result[q].kind = "ok"
        /\ Len(transactions) = Len(SeedTransactions) + 1

\* the steps of buy_stock / sell_stock that ask the price source
PriceSteps == {"buy_price", "sell_price"}

\* C21: no error of a buy or a sell is swallowed, and the two causes of a
\* failed trade stay apart: a call that ended at its price lookup carries
\* one of the price source's errors, a call that ended at a database
\* statement carries the store's error, and no error kind belongs to both;
\* a call reports success only from its commit.
C21_PriceAndStoreErrorsDistinct ==
    /\ StoreError \notin PriceErrors
    /\ \A p \in Procs :
        (pc[p] = "done" /\ call[p].op \in {"buy", "sell"}) =>
            /\ result[p].kind # "none"
            /\ result[p].kind = "ok" => result[p].at \in {"buy_commit", "sell_commit"}
            /\ result[p].at \in PriceSteps <=> result[p].kind \in PriceErrors
            /\ result[p].kind = StoreError => result[p].at \in DbSteps
            /\ (result[p].at \in DbSteps \ {"sell_check"} /\ result[p].kind # "ok")
                  => result[p].kind = StoreError

\* C21 witness: one trade could not be priced and another could not be
\* recorded, and their errors differ.
C21_Witness ==
    \E p, q \in Procs :
        /\ pc[p] = "done" /\ call[p].op = "buy" /\ result[p].at = "buy_price"
        /\ result[p].kind = RequestException
        /\ pc[q] = "done" /\ call[q].op = "buy" /\ result[q].at = "buy_commit"
        /\ result[q].kind = StoreError

\* C22 (stated as claimed; the code violates it): in every reachable state
\* every position has quantity >= 0, every position with quantity > 0 has a
\* defined average_price > 0, and a buy's upsert never meets a row whose
\* quantity plus the bought quantity is 0, the divisor of its average.
C22_PositionsWellFormed ==
    /\ \A key \in Keys :
          /\ portfolio[key].quantity >= 0
          /\ portfolio[key].quantity > 0 =>
                /\ portfolio[key].average_price # NullAvg
                /\ portfolio[key].average_price.n > 0
    /\ \A p \in Procs :
          (pc[p] = "buy_upsert" /\ portfolio[KeyOf(call[p])].present) =>
              portfolio[KeyOf(call[p])].quantity + call[p].quantity # 0

\* C24: the ledger is in commit order and its ids grow strictly along it:
\* every row has a larger id than every row committed before it, so no two
\* rows share an id; and the id a call holds for the row it is about to
\* commit is larger than the id of every row committed so far.
C24_IdsIncreaseInCommitOrder ==
    /\ \A i, j \in 1..Len(transactions) :
          i < j => transactions[i].id < transactions[j].id
    /\ \A p \in Procs :
          tx[p].rows # <<>> =>
              \A i \in 1..Len(transactions) : transactions[i].id < tx[p].rows[1].id

\* C24 witness: two calls that ran side by side have both committed, and
\* the one that committed later has the larger id.
C24_Witness ==
    \E p, q \in Procs :
        /\ pc[p] = "done" /\ result[p].kind = "ok"
        /\ pc[q] = "done" /\ result[q].kind = "ok"
        /\ Len(transactions) = 2
        /\ transactions[1].id = result[p].transaction_id
        /\ result[p].transaction_id < result[q].transaction_id
        /\ transactions[Len(transactions)].id = result[q].transaction_id

\* C25: the record a successful buy or sell returns describes the row the
\* call committed: the ledger holds exactly one row with the returned id,
\* that row has the call's user, symbol and quantity, the returned price
\* and the type of the call, and the returned total is price * quantity;
\* and the price in the row a buy is about to commit is the price its
\* position update was computed with.
C25_ReturnedRecordIsCommittedRow ==
    /\ \A p \in Procs :
          (pc[p] = "done" /\ call[p].op \in {"buy", "sell"} /\ result[p].kind = "ok") =>
              /\ Cardinality({i \in 1..Len(transactions) :
                                  transactions[i].id = result[p].transaction_id}) = 1
              /\ \E i \in 1..Len(transactions) :
                    /\ transactions[i].id = result[p].transaction_id
                    /\ IsKey(transactions[i], KeyOf(call[p]))
                    /\ transactions[i].quantity = call[p].quantity
                    /\ transactions[i].price = result[p].price
                    /\ transactions[i].transaction_type =
                          (IF call[p].op = "buy" THEN "BUY" ELSE "SELL")
              /\ result[p].total = result[p].price * call[p].quantity
    /\ \A p \in Procs :
          pc[p] = "buy_commit" =>
              /\ tx[p].rows[1].price = price[p]
              /\ tx[p].pos[1] = UpsertRow(portfolio[KeyOf(call[p])], call[p].quantity,
                                          tx[p].rows[1].price)

\* C25 witness: two calls have committed side by side; one is a buy of two
\* shares at price 2, returned with total 4, the other a sell, and the two
\* returned ids are those of the two rows added.
C25_Witness ==
    \E p, q \in Procs :
        /\ pc[p] = "done" /\ call[p].op = "buy" /\ result[p].kind = "ok"
        /\ call[p].quantity = 2 /\ result[p].price = 2 /\ result[p].total = 4
        /\ pc[q] = "done" /\ call[q].op = "sell" /\ result[q].kind = "ok"
        /\ Len(transactions) = 2
        /\ result[p].transaction_id = transactions[1].id
        /\ result[q].transaction_id = transactions[2].id

\* C23: the table holds at most one row per (user_id, symbol): a key has
\* one row or none, also in what a buy is about to commit; and a buy whose
\* upsert met a row, be it one that a concurrent first buy committed a
\* moment before, has updated that row (its quantity raised by the bought
\* quantity) rather than written a row of its own.
C23_OnePositionPerKey ==
    /\ \A key \in Keys :
          /\ portfolio[key].copies <= 1
          /\ portfolio[key].present <=> portfolio[key].copies = 1
    /\ \A p \in Procs :
          pc[p] \in {"buy_record", "buy_commit"} =>
              /\ tx[p].pos # <<>>
              /\ tx[p].pos[1].copies = 1
              /\ portfolio[KeyOf(call[p])].present =>
                    tx[p].pos[1].quantity =
                        portfolio[KeyOf(call[p])].quantity + call[p].quantity

\* C23 witness: on the empty database two callers bought the same symbol
\* for the same user side by side; both succeeded, and the one row of the
\* key holds the shares of both.
C23_Witness ==
    \E p, q \in Procs :
        /\ p # q /\ Len(transactions) = 2 /\ transactions[1].id = 1
        /\ pc[p] = "done" /\ call[p].op = "buy" /\ result[p].kind = "ok"
        /\ pc[q] = "done" /\ call[q].op = "buy" /\ result[q].kind = "ok"
        /\ KeyOf(call[p]) = KeyOf(call[q])
        /\ portfolio[KeyOf(call[p])].copies = 1
        /\ portfolio[KeyOf(call[p])].quantity = call[p].quantity + call[q].quantity

\* C26 (stated as claimed; the code violates it): no operation blocks for
\* ever: a call that has started eventually has its result or its error.
C26_EveryCallReturns ==
    \A p \in Procs : (pc[p] \notin {"idle", "done"}) ~> (pc[p] = "done")

\* C27: get_stock_info returns its three parts only if all three calls on
\* the price source succeeded; when one fails, the call fails with the
\* error of that call, no later call is made, and nothing is returned.
C27_StockInfoAllOrError ==
    \A p \in Procs :
        (pc[p] = "done" /\ call[p].op = "get_stock_info") =>
            LET made == locals[p].outcomes
            IN  /\ made # <<>>
                /\ \A i \in 1..(Len(made) - 1) : made[i] = "ok"
                /\ IF result[p].kind = "ok"
                   THEN /\ Len(made) = 3 /\ made[3] = "ok"
                        /\ locals[p].parts = InfoParts
                        /\ result[p].price = locals[p].current_price
                   ELSE /\ made[Len(made)] # "ok"
                        /\ result[p].kind = made[Len(made)]
                        /\ locals[p].parts = {}

\* C27 witness: one call got its price and its company info and failed on
\* the historical data, with that call's error; another returned all three.
C27_Witness ==
    \E p, q \in Procs :
        /\ pc[p] = "done" /\ call[p].op = "get_stock_info"
        /\ result[p].kind = HistoricalValueError /\ Len(locals[p].outcomes) = 3
        /\ pc[q] = "done" /\ call[q].op = "get_stock_info"
        /\ result[q].kind = "ok" /\ locals[q].parts = InfoParts

\* C28 (stated as claimed; the code violates it): once a get_stock_price
\* for a symbol has fetched and returned its data, every call for that
\* symbol that begins afterwards and looks the cache up within the cache
\* duration of that fetch returns the same data and makes no request.
C28_CachedPriceServed ==
    \A p \in Procs :
        (pc[p] = "done" /\ call[p].op = "get_stock_price" /\ result[p].kind = "ok") =>
            \A i \in 1..locals[p].seen :
                (/\ served[i].symbol = call[p].symbol
                 /\ locals[p].checked - served[i].at < CacheDuration)
                    => /\ result[p].price = served[i].data
                       /\ ~locals[p].requested

\* C29 (stated as claimed; the code violates it): validate_symbol never
\* raises: it returns True when its get_stock_price succeeded, and only
\* then, and False when the request failed or the response was invalid.
C29_ValidateSymbolNeverRaises ==
    \A p \in Procs :
        (pc[p] = "done" /\ call[p].op = "validate_symbol") =>
            /\ result[p].kind \in {"True", "False"}
            /\ result[p].kind = "True" <=> locals[p].outcome = "ok"

C34_LedgerReconciles ==
    \A key \in Keys :
        /\ portfolio[key].quantity =
              SumQuantity(transactions, key, "BUY") - SumQuantity(transactions, key, "SELL")
        /\ portfolio[key].present =>
              \E i \in 1..Len(transactions) :
                  IsKey(transactions[i], key) /\ transactions[i].transaction_type = "BUY"

\* C34 witness: a position was bought and partly sold by a sell that has
\* returned, and the row holds the difference.
C34_Witness ==
    \E key \in Keys, p \in Procs :
        /\ SumQuantity(transactions, key, "SELL") > 0
        /\ portfolio[key].quantity > 0
        /\ portfolio[key].quantity < SumQuantity(transactions, key, "BUY")
        /\ pc[p] = "done" /\ result[p].kind = "ok" /\ call[p].op = "sell"

\* C38 (stated as claimed; the code violates it): a buy that commits on a
\* position row standing at quantity 0 leaves quantity = the bought quantity
\* and average_price = the buy price; the stale average_price kept on the
\* empty row has no influence.
C38_BuyOnEmptiedPosition ==
    [][\A p \in Procs :
          ( /\ pc[p] = "buy_commit" /\ pc'[p] = "done" /\ result'[p].kind = "ok"
            /\ portfolio[KeyOf(call[p])].present
            /\ portfolio[KeyOf(call[p])].quantity = 0 )
          => /\ portfolio'[KeyOf(call[p])].present
             /\ portfolio'[KeyOf(call[p])].quantity = call[p].quantity
             /\ portfolio'[KeyOf(call[p])].average_price = Frac(result'[p].price, 1)]_vars

\* the oversold database is one the trading calls reach from the seeded one
OversoldReached == portfolio = OversoldPortfolio /\ transactions = OversoldTransactions

ReadOps == {"portfolio", "history", "get_stock_info"}

\* C36: get_portfolio, get_transaction_history and get_stock_info leave the
\* store unchanged: no step of such a call, whether the call goes on,
\* returns or fails at that step, creates, modifies or removes a position
\* row or a transaction row.
C36_ReadsLeaveStoreUnchanged ==
    [][\A p \in Procs :
          ( /\ call'[p].op \in ReadOps
            /\ pc'[p] # pc[p] \/ view'[p] # view[p] \/ locals'[p] # locals[p] )
          => portfolio' = portfolio /\ transactions' = transactions]_vars

\* C36 witness: on the seeded database one caller's get_portfolio has failed
\* on the price of the holding and the other's get_transaction_history has
\* returned the row; the tables are the seeded ones.
C36_Witness ==
    \E p, q \in Procs :
        /\ pc[p] = "done" /\ call[p].op = "portfolio"
        /\ result[p].kind \in PriceErrors
        /\ pc[q] = "done" /\ call[q].op = "history"
        /\ result[q].kind = "ok" /\ Len(view[q].history) = 1
        /\ portfolio = SeedPortfolio /\ transactions = SeedTransactions

\* C33 (stated as claimed; the code violates it): a cached price whose age
\* has reached the cache duration is never served: a lookup returns the
\* cached data only from an entry younger than the duration; a lookup that
\* finds the entry expired goes on to remove it; having found it expired,
\* the call removes it and goes on to ask the API; and the valid answer is
\* what the call returns and leaves in the cache, stamped with the time of
\* the fetch.
C33_ExpiredEntryRefetched ==
    [][\A p \in Procs :
          LET key == CacheKey("price", call[p].symbol)
          IN  (Stepped(p) /\ call[p].op = "get_stock_price") =>
                /\ (pc[p] = "gsp_read" /\ result'[p].kind = "ok") =>
                        /\ cache[key].present /\ now - cache[key].timestamp < CacheDuration
                        /\ result'[p].price = cache[key].data
                /\ ( /\ pc[p] = "gsp_read" /\ cache[key].present
                      /\ now - cache[key].timestamp >= CacheDuration ) =>
                        pc'[p] = "gsp_del"
                /\ pc[p] = "gsp_del" =>
                        /\ ~cache'[key].present
                        /\ pc'[p] = "gsp_request"
                /\ (pc[p] = "gsp_request" /\ result'[p].kind = "ok") =>
                        cache'[key] = Entry(result'[p].price, now)]_vars

CachedOps == {"get_stock_price", "get_company_info", "get_historical_data"}

\* the cache as the call of p found it, the instance having no other caller:
\* the cache as it is, with the entry the call read and found expired
CacheFound(p) ==
    IF locals[p].expired
    THEN [cache EXCEPT ![LookupKey(call[p])] = Entry(locals[p].data, locals[p].timestamp)]
    ELSE cache

\* C37 as first stated (the code violates it): when get_stock_price,
\* get_company_info or get_historical_data fails, the cache is left as the
\* call found it; so a later lookup that finds no entry asks the API, and a
\* valid answer is returned and cached.
C37_FailedCallLeavesCacheUnchanged ==
    [][\A p \in Procs :
          LET key == LookupKey(call[p])
          IN  (Stepped(p) /\ call[p].op \in CachedOps) =>
                /\ (pc'[p] = "done" /\ result'[p].kind # "ok") => cache' = CacheFound(p)
                /\ (pc[p] = "gsp_in" /\ ~cache[key].present) => pc'[p] = "gsp_request"
                /\ (pc[p] = "gsp_request" /\ result'[p].kind = "ok") =>
                        cache'[key] = Entry(result'[p].price, now)]_vars

\* C37 (amended): a failed call is never cached.  The step at which
\* get_stock_price, get_company_info or get_historical_data fails leaves
\* the cache as it is; the one change a call makes to the cache before its
\* request is answered is the removal of the entry under its key, after it
\* found that entry expired; a lookup that finds no entry under its key
\* asks the API, and a valid answer is returned and cached.
C37_FailureNeverCached ==
    [][\A p \in Procs :
          LET key == LookupKey(call[p])
          IN  (Stepped(p) /\ call[p].op \in CachedOps) =>
                /\ (pc'[p] = "done" /\ result'[p].kind # "ok") => cache' = cache
                /\ (cache' # cache /\ pc[p] # "gsp_request") =>
                        /\ pc[p] = "gsp_del" /\ locals[p].expired
                        /\ cache' = [cache EXCEPT ![key] = NoEntry]
                /\ (pc[p] = "gsp_in" /\ ~cache[key].present) => pc'[p] = "gsp_request"
                /\ (pc[p] = "gsp_request" /\ result'[p].kind = "ok") =>
                        cache'[key] = Entry(result'[p].price, now)]_vars

\* C37 witness: the third call on the instance found its entry expired,
\* removed it, asked the API and failed; its key has no entry, and the
\* entry of another key is still cached.
C37_Witness ==
    \E p \in Procs :
        /\ pc[p] = "done" /\ call[p].op \in CachedOps \ {"get_stock_price"}
        /\ result[p].kind \notin {"ok", "none"}
        /\ locals[p].expired /\ locals[p].requested
        /\ ~cache[LookupKey(call[p])].present
        /\ \E key \in CacheKeys : cache[key].present

\* C31: User.login fails with the same error, "Invalid username or
\* password", for an unknown username and for a wrong password; a login
\* that fails leaves table users as it is; and the only change a login
\* makes is last_login of the row it logged in, at the commit of a login
\* that succeeds.
C31_LoginFailuresAlike ==
    [][\A p \in Procs :
          (Stepped(p) /\ call'[p].op = "login") =>
            LET row == SelectUser(locals[p].username)
            IN  /\ (pc[p] = "login_select" /\ result'[p].kind # StoreError) =>
                      IF row = <<>> \/ ~checkpw(locals[p].password, row[1].password_hash)
                      THEN pc'[p] = "done" /\ result'[p].kind = InvalidLogin
                      ELSE pc'[p] = "login_update"
                /\ (pc'[p] = "done" /\ result'[p].kind # "ok") => users' = users
                /\ users' # users =>
                      /\ pc[p] = "login_commit" /\ result'[p].kind = "ok"
                      /\ \E i \in 1..Len(users) :
                            /\ users[i].id = result'[p].transaction_id
                            /\ users' = [users EXCEPT ![i].last_login = CurrentTimestamp]]_vars

\* C31 witness: one caller's login failed on a username no row has, the
\* other's on a wrong password for a user there is; both have the same
\* error, and the user's row still shows no login.
C31_Witness ==
    \E p, q \in Procs :
        /\ pc[p] = "done" /\ call[p].op = "login" /\ SelectUser(locals[p].username) = <<>>
        /\ pc[q] = "done" /\ call[q].op = "login" /\ SelectUser(locals[q].username) # <<>>
        /\ locals[q].password # ""
        /\ result[p].kind = InvalidLogin /\ result[q] = result[p]
        /\ users = SeedUsers

\* C32: update_password with a current password that does not match the
\* hash the User object holds fails with "Current password is incorrect"
\* at the check, before any write to the store: the stored hash and salt,
\* the write lock and the object's _salt and _hashed_password are as they
\* were; and the error is raised in no other case.
C32_IncorrectCurrentRejected ==
    [][\A p \in Procs :
          (Stepped(p) /\ call'[p].op = "update_password") =>
            /\ (pc[p] = "up_check" /\ ~checkpw(locals[p].password, locals[p].hashed_password)) =>
                  /\ pc'[p] = "done" /\ result'[p].kind = IncorrectCurrent
                  /\ users' = users /\ writer' = writer /\ tx' = tx
                  /\ locals'[p].salt = locals[p].salt
                  /\ locals'[p].hashed_password = locals[p].hashed_password
            /\ pc[p] \in {"idle", "up_check"} =>
                  users' = users /\ writer' = writer /\ tx' = tx
            /\ result'[p].kind = IncorrectCurrent =>
                  /\ pc[p] = "up_check"
                  /\ ~checkpw(locals[p].password, locals[p].hashed_password)]_vars

\* C32 witness: a caller's update_password was refused for its current
\* password, which is not the user's; the row and the object still have
\* the hash and salt of the password the user was created with.
C32_Witness ==
    \E p \in Procs :
        /\ pc[p] = "done" /\ call[p].op = "update_password"
        /\ result[p].kind = IncorrectCurrent /\ result[p].at = "up_check"
        /\ locals[p].password = "guess" /\ locals[p].new_password = "guess"
        /\ users = SeedUsers
        /\ locals[p].hashed_password = users[1].password_hash
        /\ locals[p].salt = users[1].salt
        /\ checkpw("secret", users[1].password_hash)

====
